---- MODULE Spec2Model ----
(***************************************************************************)
(* Cross-chain swap solver: state store, evaluators (Solver, SolverV2),    *)
(* in-flight cache, trade executor and the per-chain block loop.           *)
(*                                                                         *)
(* Amounts, fees and balances are counted in units of 10^14 wei.           *)
(* Time is counted in seconds and advances in steps of the executor's      *)
(* trade deadline.                                                         *)
(***************************************************************************)
EXTENDS Integers, Sequences, FiniteSets, TLC

VARIABLES
  states,      \* Solver.states: chainId -> ChainState (the persistent State Store)
  world,       \* per chain, the ChainState its provider's fetchState would assemble now
  inFlight,    \* the NodeCache of request IDs: key -> seconds of TTL left
  variant,     \* which evaluator this run uses: "v1" (Solver) or "v2" (SolverV2)
  clock,       \* Date.now() in milliseconds, read by time conditions
  evChain,     \* chain of the most recent tick (0 before the first)
  tickList,    \* chainId -> the Trade list the chain's most recent evaluator call returned
  evPreBal,    \* chainId -> tokenBalances of the store when the most recent call began
  evInFlight,  \* keys of the in-flight cache when the most recent call began
  fetchedBal,  \* chainId -> tokenBalances stored by the chain's last fetchState
  pc,          \* chainId -> where the chain's stream task is suspended
  cur,         \* chainId -> the trade execute is working on (a sequence of 0 or 1)
  queue,       \* chainId -> the trades of the list execute has not reached yet
  timer,       \* chainId -> seconds left on the executeTrade deadline
  exec,        \* chainId -> the executeTradeInternal call execute awaits (0 or 1)
  orphans,     \* executeTradeInternal calls still running after their deadline fired
  handled,     \* chainId -> what execute did with each trade of the current list
  tickBal,     \* chainId -> the on-chain balances of all chains at the chain's last tick
  routerStore, \* request ID -> the swap request record the destination router holds
  head,        \* chainId -> the chain's latest block number
  streams,     \* chainId -> the chain's subscribeBlocks generator
  process,     \* "running", "exited" once main has called process.exit(1), "exited0" after process.exit(0)
  call         \* a call of a util function or of main's shutdown handler: its name, argument and results so far

evalVars == <<states, world, inFlight, variant, clock, evChain, tickList,
              evPreBal, evInFlight, fetchedBal>>

loopVars == <<pc, cur, queue, timer, exec, orphans, handled, tickBal>>

blockVars == <<head, streams, process>>

vars == <<states, world, inFlight, variant, clock, evChain, tickList,
          evPreBal, evInFlight, fetchedBal,
          pc, cur, queue, timer, exec, orphans, handled, tickBal,
          routerStore, head, streams, process, call>>

\* The Trade list of the most recent evaluator call.
evTrades == IF evChain = 0 THEN <<>> ELSE tickList[evChain]

(***************************************************************************)
(* Bounds of the model.                                                    *)
(***************************************************************************)
MaxTransfers == 2   \* longest transfers list a source chain reports
MaxBal == 3         \* largest token balance a chain reports

(***************************************************************************)
(* Program constants.                                                      *)
(***************************************************************************)
ChainA == 31337
ChainB == 31338
UnknownChain == ChainB + 1   \* a chain ID no network is configured for
Chains == {ChainA, ChainB}

V1MinFee == 1            \* Solver.solve: solverFee < BigInt(1)
MinSolverFee == 10       \* RiskManager.minSolverFee = 10^15 wei
MinGas == 1000           \* assessExecutionRisk: 10^17 wei
MaxRiskSum == 12         \* RiskManager.maxRisk = 0.3, as a sum of four axes in tenths
GasCostDefault == 30     \* 150000 gas x 20 gwei = 3 x 10^15 wei
GasCostPolygon == 45     \* 150000 gas x 30 gwei

Undefined == -1          \* Map.get of an absent key
ZeroAddress == "0x0000"

(***************************************************************************)
(* Strings: String.prototype.toLowerCase on the identifiers of the model.  *)
(***************************************************************************)
Lower(s) ==
  CASE s = "0xT1" -> "0xt1"
    [] s = "0xR1" -> "0xr1"
    [] s = "0xR2" -> "0xr2"
    [] s = "0xCafe" -> "0xcafe"
    [] s = "0xB0b" -> "0xb0b"
    [] OTHER -> s

\* A 256-bit chain ID: the bits above the low 64 and the low 64 bits.
U256(hi, lo) == [hi |-> hi, lo |-> lo]

\* util.normalizeChainId: chainId & 0xFFFFFFFFFFFFFFFF
NormalizeChainId(chainId) == chainId.lo

(***************************************************************************)
(* Map helpers.                                                            *)
(***************************************************************************)
MapGet(m, k) == IF k \in DOMAIN m THEN m[k] ELSE Undefined

MapSet(m, k, v) == [x \in (DOMAIN m) \cup {k} |-> IF x = k THEN v ELSE m[x]]

EmptyMap == [x \in {} |-> 0]

(***************************************************************************)
(* In-flight cache (node-cache with stdTTL 30, maxKeys 1000).              *)
(***************************************************************************)
InFlightTTL == 30

MaxKeys == 1000

\* node-cache's set with maxKeys: a cache holding maxKeys entries stores no
\* new key, set throws (ECACHEFULL).
InFlightFull(cache, key) ==
  key \notin DOMAIN cache /\ Cardinality(DOMAIN cache) >= MaxKeys

InFlightHasNever(cache, key) == FALSE

InFlightHas(cache, key) == key \in DOMAIN cache

InFlightSet(cache, key) == MapSet(cache, key, InFlightTTL)

InFlightDel(cache, key) == [x \in (DOMAIN cache) \ {key} |-> cache[x]]

(***************************************************************************)
(* Solver (simple evaluator).                                              *)
(***************************************************************************)
IsFulfilledNever(destState, requestId) == FALSE

IsFulfilled(destState, requestId) ==
  \E id \in destState.alreadyFulfilled : Lower(id) = Lower(requestId)

ToTrade(transfer) ==
  [requestId     |-> transfer.requestId,
   nonce         |-> transfer.params.nonce,
   tokenInAddr   |-> Lower(transfer.params.tokenIn),
   tokenOutAddr  |-> Lower(transfer.params.tokenOut),
   srcChainId    |-> transfer.params.srcChainId,
   destChainId   |-> transfer.params.dstChainId,
   senderAddr    |-> Lower(transfer.params.sender),
   recipientAddr |-> Lower(transfer.params.recipient),
   swapAmount    |-> transfer.params.amountOut]

\* The result of a solve call: zero or one Trade, and the working store.
NoTrade(st) == [trade |-> <<>>, st |-> st]

CommitSkipped(st, destChainId, tokenAddress, newBalance) == st

CommitSpendsNative(st, destChainId, tokenAddress, newBalance) ==
  [st EXCEPT ![destChainId].tokenBalances = MapSet(@, tokenAddress, newBalance),
             ![destChainId].nativeBalance = 0]

Commit(st, destChainId, tokenAddress, newBalance) ==
  [st EXCEPT ![destChainId].tokenBalances = MapSet(@, tokenAddress, newBalance)]

\* The fee check of Solver.solve.
FeeTooLowNever(solverFee) == FALSE

FeeTooLow(solverFee) == solverFee < V1MinFee

Solve(transfer, st) ==
  LET p == transfer.params
      destChainId == NormalizeChainId(p.dstChainId)
  IN IF destChainId \notin DOMAIN st THEN NoTrade(st)
     ELSE
       LET destState == st[destChainId]
           tokenAddress == Lower(p.tokenOut)
           tokenBalance == MapGet(destState.tokenBalances, tokenAddress)
       IN IF p.executed THEN NoTrade(st)
          ELSE IF IsFulfilled(destState, transfer.requestId) THEN NoTrade(st)
          ELSE IF destState.nativeBalance = 0 THEN NoTrade(st)
          ELSE IF tokenBalance = Undefined THEN NoTrade(st)
          ELSE IF tokenBalance = 0 \/ tokenBalance < p.amountOut THEN NoTrade(st)
          ELSE IF FeeTooLow(p.solverFee) THEN NoTrade(st)
          ELSE [trade |-> <<ToTrade(transfer)>>,
                st |-> Commit(st, destChainId, tokenAddress,
                              tokenBalance - p.amountOut)]

\* The pre-filter of calculateTrades: keep a transfer unless its destination
\* state is known and lists it as fulfilled.
KeepUnfulfilled(transfer, st) ==
  LET destChainId == NormalizeChainId(transfer.params.dstChainId)
  IN IF destChainId \notin DOMAIN st THEN TRUE
     ELSE ~IsFulfilled(st[destChainId], transfer.requestId)

UnfulfilledTransfersReversed(transfers, st) ==
  LET kept == SelectSeq(transfers, LAMBDA t : KeepUnfulfilled(t, st))
  IN  [i \in 1..Len(kept) |-> kept[Len(kept) + 1 - i]]

UnfulfilledTransfers(transfers, st) ==
  SelectSeq(transfers, LAMBDA t : KeepUnfulfilled(t, st))

RECURSIVE SolveLoop(_, _, _, _, _)
SolveLoop(transfers, i, cache, st, trades) ==
  IF i > Len(transfers) THEN [trades |-> trades, st |-> st]
  ELSE IF InFlightHas(cache, transfers[i].requestId)
       THEN SolveLoop(transfers, i + 1, cache, st, trades)
       ELSE LET r == Solve(transfers[i], st)
            IN SolveLoop(transfers, i + 1, cache, r.st, trades \o r.trade)

\* Solver.calculateTrades. `new Map(this.states)` copies the map only: the
\* ChainState objects are shared with this.states, so the store the loop
\* leaves behind is the persistent store.
CalculateTrades(chainId, cache, st) ==
  SolveLoop(UnfulfilledTransfers(st[chainId].transfers, st), 1, cache, st, <<>>)

(***************************************************************************)
(* SolverV2 (scored evaluator): conditions, risk, profit, ranking.         *)
(***************************************************************************)
\* ConditionEvaluator.compare; maxValue defaults to the target.
Compare(v, operator, t, max) ==
  CASE operator = "gt" -> v > t
    [] operator = "lt" -> v < t
    [] operator = "eq" -> v = t
    [] operator = "gte" -> v >= t
    [] operator = "lte" -> v <= t
    [] operator = "between" -> v >= t /\ v <= (IF max = Undefined THEN t ELSE max)
    [] OTHER -> FALSE

\* evaluateTimeCondition: Date.now() against params.timestamp and params.max.
EvaluateTimeCondition(condition, now) ==
  Compare(now, condition.operator, condition.timestamp, condition.max)

\* evaluateBalanceCondition: token balance (0 when absent) against minAmount.
EvaluateBalanceCondition(condition, st) ==
  IF condition.chainId \notin DOMAIN st THEN FALSE
  ELSE LET balance == MapGet(st[condition.chainId].tokenBalances, Lower(condition.token))
       IN Compare(IF balance = Undefined THEN 0 ELSE balance,
                  condition.operator, condition.minAmount, condition.max)

\* PriceOracle.fetchFromCoingecko / fetchFromChainlink: both return null.
NoPrice == -2            \* null

FetchFromCoingecko(tokenPair) == NoPrice

FetchFromChainlink(tokenPair) == NoPrice

\* String.prototype.split('/') on the pairs in use.
SplitPair(tokenPair) ==
  CASE tokenPair = "0xt1/0xt1" -> <<"0xt1", "0xt1">>
    [] tokenPair = "0xt1/0xT1" -> <<"0xt1", "0xT1">>
    [] tokenPair = "eth/usd" -> <<"eth", "usd">>
    [] OTHER -> <<tokenPair>>

\* PriceOracle.estimatePrice: 1.0 for every pair; tokenOut.toLowerCase()
\* throws when the pair has no '/'.
EstimatePrice(tokenPair) ==
  IF Len(SplitPair(tokenPair)) < 2 THEN [threw |-> TRUE, price |-> NoPrice]
  ELSE [threw |-> FALSE, price |-> 1]

\* PriceOracle.getPrice on a cache miss or hit: the two sources, then the
\* estimate; a cached price is an earlier result of the same computation.
GetPrice(tokenPair) ==
  LET first == FetchFromCoingecko(tokenPair)
      second == IF first = NoPrice THEN FetchFromChainlink(tokenPair) ELSE first
  IN IF second = NoPrice THEN EstimatePrice(tokenPair)
     ELSE [threw |-> FALSE, price |-> second]

\* evaluatePriceCondition: the pair defaults to tokenIn/tokenOut; a throwing
\* lookup gives false.
EvaluatePriceCondition(condition, transfer) ==
  LET tokenPair == IF condition.tokenPair # "" THEN condition.tokenPair
                   ELSE transfer.params.tokenIn \o "/" \o transfer.params.tokenOut
      got == GetPrice(tokenPair)
  IN IF got.threw THEN FALSE
     ELSE Compare(got.price, condition.operator, condition.value, condition.max)

EvaluateCondition(condition, transfer, st, now) ==
  CASE condition.type = "price" -> EvaluatePriceCondition(condition, transfer)
    [] condition.type = "time" -> EvaluateTimeCondition(condition, now)
    [] condition.type = "balance" -> EvaluateBalanceCondition(condition, st)
    [] OTHER -> FALSE

\* evaluateConditions: every condition in turn, stopping at the first failure.
EvaluateConditions(conditions, transfer, st, now) ==
  \A i \in 1..Len(conditions) : EvaluateCondition(conditions[i], transfer, st, now)

\* RiskManager: each axis in tenths.
AssessLiquidityRisk(trade, st) ==
  LET destChainId == NormalizeChainId(trade.destChainId)
  IN IF destChainId \notin DOMAIN st THEN 10
     ELSE LET got == MapGet(st[destChainId].tokenBalances, trade.tokenOutAddr)
              tokenBalance == IF got = Undefined THEN 0 ELSE got
          IN IF tokenBalance = 0 THEN 10
             ELSE IF tokenBalance < trade.swapAmount THEN 8
             ELSE IF trade.swapAmount > 0 /\ 10 * tokenBalance < 11 * trade.swapAmount THEN 5
             ELSE 1

AssessFeeRisk(transfer) ==
  IF transfer.params.solverFee < MinSolverFee THEN 9 ELSE 1

AssessExecutionRiskFlat(trade, st) == 2

AssessExecutionRisk(trade, st) ==
  LET destChainId == NormalizeChainId(trade.destChainId)
  IN IF destChainId \notin DOMAIN st THEN 8
     ELSE IF st[destChainId].nativeBalance = 0 THEN 10
     ELSE IF st[destChainId].nativeBalance < MinGas THEN 6
     ELSE 2

AssessCounterpartyRisk(transfer) ==
  IF Lower(transfer.params.sender) = ZeroAddress
     \/ Lower(transfer.params.recipient) = ZeroAddress THEN 5 ELSE 1

\* assessRisk: the sum of the four axes in tenths (the code divides by 4).
AssessRisk(trade, transfer, st) ==
  AssessLiquidityRisk(trade, st) + AssessFeeRisk(transfer)
  + AssessExecutionRisk(trade, st) + AssessCounterpartyRisk(transfer)

\* GasPriceEstimator.getGasPrice x 150000 gas units, per destination chain.
GasCost(destChainId) ==
  CASE destChainId = 1 -> GasCostDefault
    [] destChainId = 137 -> GasCostPolygon
    [] OTHER -> GasCostDefault

\* estimateProfit in sixtieths of a unit: fee - gas - amountOut * 1000 * 60 / 3600000,
\* floored at 0.
EstimateProfit60(trade, transfer) ==
  LET profit == 60 * transfer.params.solverFee
                - 60 * GasCost(NormalizeChainId(trade.destChainId))
                - trade.swapAmount
  IN IF profit > 0 THEN profit ELSE 0

\* score = profit / solverFee - 10 * risk, as the fraction ScoreNum / ScoreDen.
ScoreNum(c) == 4 * c.profit60 - 60 * c.transfer.params.solverFee * c.risk

ScoreDen(c) == 240 * c.transfer.params.solverFee

ScoreGreater(a, b) ==
  IF a.transfer.params.solverFee = 0 \/ b.transfer.params.solverFee = 0
  THEN (0 - 60 * a.risk) > (0 - 60 * b.risk)
  ELSE ScoreNum(a) * ScoreDen(b) > ScoreNum(b) * ScoreDen(a)

SolveV2Unchecked(transfer, st) == <<ToTrade(transfer)>>

\* SolverV2.solve: the checks of Solver.solve with the configured minimum fee,
\* and no inventory commit.
SolveV2(transfer, st) ==
  LET p == transfer.params
      destChainId == NormalizeChainId(p.dstChainId)
  IN IF destChainId \notin DOMAIN st THEN <<>>
     ELSE
       LET destState == st[destChainId]
           tokenBalance == MapGet(destState.tokenBalances, Lower(p.tokenOut))
       IN IF p.executed THEN <<>>
          ELSE IF IsFulfilled(destState, transfer.requestId) THEN <<>>
          ELSE IF destState.nativeBalance = 0 THEN <<>>
          ELSE IF tokenBalance = Undefined THEN <<>>
          ELSE IF tokenBalance = 0 \/ tokenBalance < p.amountOut THEN <<>>
          ELSE IF p.solverFee < MinSolverFee THEN <<>>
          ELSE <<ToTrade(transfer)>>

\* One iteration of the collection loop: the candidate entry of a transfer, or none.
Candidate(transfer, cache, st, now) ==
  IF InFlightHas(cache, transfer.requestId) THEN <<>>
  ELSE IF Len(transfer.conditions) > 0 /\ ~EvaluateConditions(transfer.conditions, transfer, st, now)
  THEN <<>>
  ELSE LET solved == SolveV2(transfer, st)
       IN IF solved = <<>> THEN <<>>
          ELSE LET trade == solved[1]
                   risk == AssessRisk(trade, transfer, st)
               IN IF risk < MaxRiskSum
                  THEN <<[trade |-> trade, transfer |-> transfer, risk |-> risk,
                          profit60 |-> EstimateProfit60(trade, transfer)]>>
                  ELSE <<>>

RECURSIVE PotentialTrades(_, _, _, _, _)
PotentialTrades(transfers, i, cache, st, now) ==
  IF i > Len(transfers) THEN <<>>
  ELSE Candidate(transfers[i], cache, st, now)
       \o PotentialTrades(transfers, i + 1, cache, st, now)

\* Array.prototype.sort((a, b) => b.score - a.score): stable, highest score first.
RECURSIVE InsertByScore(_, _)
InsertByScore(c, sorted) ==
  IF sorted = <<>> THEN <<c>>
  ELSE IF ScoreGreater(c, Head(sorted)) THEN <<c>> \o sorted
  ELSE <<Head(sorted)>> \o InsertByScore(c, Tail(sorted))

SortByScoreKept(cs) == cs

RECURSIVE SortByScore(_)
SortByScore(cs) ==
  IF cs = <<>> THEN <<>>
  ELSE InsertByScore(cs[Len(cs)], SortByScore(SubSeq(cs, 1, Len(cs) - 1)))

\* The commit pass over the ranked candidates.
RECURSIVE CommitPass(_, _, _, _)
CommitPass(ranked, i, st, trades) ==
  IF i > Len(ranked) THEN [trades |-> trades, st |-> st]
  ELSE LET trade == ranked[i].trade
           destChainId == NormalizeChainId(trade.destChainId)
       IN IF destChainId \notin DOMAIN st THEN CommitPass(ranked, i + 1, st, trades)
          ELSE LET got == MapGet(st[destChainId].tokenBalances, trade.tokenOutAddr)
                   tokenBalance == IF got = Undefined THEN 0 ELSE got
               IN IF tokenBalance >= trade.swapAmount
                  THEN CommitPass(ranked, i + 1,
                                  Commit(st, destChainId, trade.tokenOutAddr,
                                         tokenBalance - trade.swapAmount),
                                  Append(trades, trade))
                  ELSE CommitPass(ranked, i + 1, st, trades)

\* SolverV2.calculateTrades; the store is shared through the shallow clone as
\* in Solver.calculateTrades.
CalculateTradesV2(chainId, cache, st, now) ==
  CommitPass(
    SortByScore(PotentialTrades(UnfulfilledTransfers(st[chainId].transfers, st),
                                1, cache, st, now)),
    1, st, <<>>)

EvaluateOnDeepCopy(chainId, cache, st, now) ==
  [trades |-> (IF variant = "v2" THEN CalculateTradesV2(chainId, cache, st, now)
               ELSE CalculateTrades(chainId, cache, st)).trades,
   st |-> st]

\* The evaluator of the run.
Evaluate(chainId, cache, st, now) ==
  IF variant = "v2" THEN CalculateTradesV2(chainId, cache, st, now)
  ELSE CalculateTrades(chainId, cache, st)

(***************************************************************************)
(* Inputs of the evaluator runs: the transfers a provider may report.      *)
(***************************************************************************)
NoCondition == <<>>

TimeCondition(operator, timestamp, max) ==
  [type |-> "time", operator |-> operator, timestamp |-> timestamp, max |-> max,
   chainId |-> 0, token |-> "", minAmount |-> 0]

Xfer(requestId, src, dst, tokenOut, amountOut, solverFee, executed, sender, conditions) ==
  [requestId |-> requestId,
   params |-> [srcChainId |-> U256(0, src), dstChainId |-> dst,
               sender |-> sender, recipient |-> "0xb0b",
               tokenIn |-> "0xt1", tokenOut |-> tokenOut,
               amountOut |-> amountOut, solverFee |-> solverFee,
               nonce |-> 1, executed |-> executed],
   conditions |-> conditions]

\* Transfers chain A may list: a plain one, a competitor with a mixed-case
\* token and high chain-ID bits, a low-fee one, a zero-amount one, one for an
\* unconfigured chain, an upper-case ID, an executed one, a zero-fee one and a
\* time-conditioned one.
TransfersOfA ==
  { Xfer("0xr1", ChainA, U256(0, ChainB), "0xt1", 1, 40, FALSE, "0xa11ce", NoCondition),
    Xfer("0xr2", ChainA, U256(1, ChainB), "0xT1", 2, 40, FALSE, "0xa11ce", NoCondition),
    Xfer("0xr3", ChainA, U256(0, ChainB), "0xt1", 1, 5, FALSE, "0xa11ce", NoCondition),
    Xfer("0xr4", ChainA, U256(0, ChainB), "0xt1", 0, 40, FALSE, "0xa11ce", NoCondition),
    Xfer("0xr5", ChainA, U256(0, UnknownChain), "0xt1", 1, 40, FALSE, "0xa11ce", NoCondition),
    Xfer("0xR1", ChainA, U256(0, ChainB), "0xt1", 1, 40, FALSE, ZeroAddress, NoCondition),
    Xfer("0xr6", ChainA, U256(0, ChainB), "0xt1", 1, 40, TRUE, "0xa11ce", NoCondition),
    Xfer("0xr7", ChainA, U256(0, ChainB), "0xt1", 1, 0, FALSE, "0xa11ce", NoCondition),
    Xfer("0xr8", ChainA, U256(0, ChainB), "0xt1", 1, 60, FALSE, "0xa11ce",
         <<TimeCondition("gte", 2000, Undefined)>>) }

\* All sequences over S of length at most n.
RECURSIVE SeqsUpTo(_, _)
SeqsUpTo(S, n) ==
  IF n = 0 THEN {<<>>}
  ELSE LET shorter == SeqsUpTo(S, n - 1)
       IN shorter \cup {Append(q, x) : q \in {r \in shorter : Len(r) = n - 1}, x \in S}

TokenBalanceMaps == {EmptyMap} \cup {[k \in {"0xt1"} |-> b] : b \in 0..MaxBal}

SnapshotsOfA ==
  [nativeBalance : {10000},
   tokenBalances : {[k \in {"0xt1"} |-> 1]},
   transfers : SeqsUpTo(TransfersOfA, MaxTransfers),
   alreadyFulfilled : {{}}]

\* Chain B is the destination: it lists no transfers of its own.
SnapshotsOfB ==
  [nativeBalance : {0, 500, 10000},
   tokenBalances : TokenBalanceMaps,
   transfers : {<<>>},
   alreadyFulfilled : {{}, {"0xr1", "0xR2"}}]

InFlightStates == {EmptyMap, [k \in {"0xr1"} |-> InFlightTTL]}

(***************************************************************************)
(* util.toRequestId on strings, character by character.                    *)
(***************************************************************************)
RequestIdDigits == 64    \* padStart(64, '0').slice(0, 64)

MaxHexLen == 2           \* varying characters of a hex string given to toRequestId

\* String.prototype.toLowerCase on the characters in use.
LowerChar(ch) ==
  CASE ch = "A" -> "a"
    [] ch = "F" -> "f"
    [] ch = "X" -> "x"
    [] OTHER -> ch

ToLowerCaseKept(chars) == chars

ToLowerCase(chars) == [i \in 1..Len(chars) |-> LowerChar(chars[i])]

StartsWith0x(chars) == Len(chars) >= 2 /\ chars[1] = "0" /\ chars[2] = "x"

PadStart(chars, n, ch) ==
  IF Len(chars) >= n THEN chars
  ELSE [i \in 1..(n - Len(chars)) |-> ch] \o chars

\* slice(0, n)
Slice(chars, n) == SubSeq(chars, 1, IF Len(chars) < n THEN Len(chars) ELSE n)

\* toRequestId for a string argument.
ToRequestIdChars(hex) ==
  LET hexString == IF StartsWith0x(hex) THEN SubSeq(hex, 3, Len(hex)) ELSE hex
      padded == Slice(PadStart(hexString, RequestIdDigits, "0"), RequestIdDigits)
  IN  <<"0", "x">> \o ToLowerCase(padded)

\* Hex strings handed to toRequestId: with and without prefix, mixed case,
\* shorter than, exactly and longer than 64 digits.
HexStrings ==
  { prefix \o body \o [i \in 1..fill |-> "b"] :
      prefix \in {<<>>, <<"0", "x">>},
      body \in SeqsUpTo({"a", "A", "1", "F"}, MaxHexLen),
      fill \in {0, RequestIdDigits - 2, RequestIdDigits - 1, RequestIdDigits} }

(***************************************************************************)
(* util.normalizeChainId on 256-bit values.  A value is held in limbs:     *)
(* hi = bits 64 and up, a = bits 53..63, b1 = bits 27..52, b0 = bits 0..26.*)
(***************************************************************************)
RECURSIVE Pow2(_)
Pow2(n) == IF n = 0 THEN 1 ELSE 2 * Pow2(n - 1)

Limbs(hi, a, b1, b0) == [hi |-> hi, a |-> a, b1 |-> b1, b0 |-> b0]

\* chainId & BigInt('0xFFFFFFFFFFFFFFFF')
Mask64(x) == [x EXCEPT !.hi = 0]

RECURSIVE BitLength(_)
BitLength(n) == IF n = 0 THEN 0 ELSE 1 + BitLength(n \div 2)

\* Number(bigint) for a value below 2^64: exact below 2^53, otherwise the
\* nearest double (53 significant bits, ties to even).
ToNumber(v) ==
  IF v.a = 0 THEN v
  ELSE LET s == BitLength(v.a)
           q == v.b0 \div Pow2(s)
           r == v.b0 % Pow2(s)
           half == Pow2(s - 1)
           up == IF r > half \/ (r = half /\ q % 2 = 1) THEN 1 ELSE 0
           low == (q + up) * Pow2(s)
           c0 == IF low = Pow2(27) THEN 1 ELSE 0
           mid == v.b1 + c0
           c1 == IF mid = Pow2(26) THEN 1 ELSE 0
       IN  [hi |-> 0, a |-> v.a + c1,
            b1 |-> IF c1 = 1 THEN 0 ELSE mid,
            b0 |-> IF c0 = 1 THEN 0 ELSE low]

\* normalizeChainId for any 256-bit argument.
NormalizeChainIdNumber(chainId) == ToNumber(Mask64(chainId))

\* Chain IDs handed to normalizeChainId: small ones, ones around 2^53, the
\* largest 64-bit values, each with and without bits above the low 64.
ChainIdValues ==
  { Limbs(hi, a, b1, b0) :
      hi \in {0, 1},
      a \in {0, 1, 2, Pow2(11) - 1},
      b1 \in {0, Pow2(26) - 1},
      b0 \in {0, 1, 2, 3, 31337, Pow2(27) - 2, Pow2(27) - 1} }

\* No util call under way.
NoCall == [fn |-> "none", step |-> 0, arg |-> <<>>, once |-> <<>>, twice |-> <<>>]

Called(fn, arg) == [fn |-> fn, step |-> 0, arg |-> arg, once |-> arg, twice |-> arg]

BalancesOf(st) == [c \in DOMAIN st |-> st[c].tokenBalances]

(***************************************************************************)
(* Network.subscribeBlocks: one generator per chain.                       *)
(***************************************************************************)
MaxBlock == 2       \* highest block number a chain reaches

\* The generator's closure: lastBlockNumber (Undefined for null), blockQueue,
\* the numbers yielded so far; and around it the provider: the highest block
\* whose 'block' event was delivered and the getBlockNumber replies on their
\* way (Undefined for none).
Stream(status, last) ==
  [status |-> status, last |-> last, blockQueue |-> <<>>, yielded |-> <<>>,
   delivered |-> 0, reply |-> Undefined, poll |-> Undefined]

\* blockHandler: queue lastBlockNumber + 1 .. blockNumber, then remember
\* blockNumber as the last one, whether or not it is higher.
BlockHandler(s, blockNumber) ==
  LET last == IF s.last = Undefined THEN blockNumber - 1 ELSE s.last
      n == IF blockNumber > last THEN blockNumber - last ELSE 0
  IN  [s EXCEPT !.blockQueue = @ \o [i \in 1..n |-> last + i],
                !.last = blockNumber]

\* The streams once every subscription is past its initial getBlockNumber.
BlocksLive ==
  /\ head = [c \in Chains |-> 0]
  /\ streams = [c \in Chains |-> Stream("live", 0)]
  /\ process = "running"

\* The loop and the executor at rest: every stream task awaits its next block.
LoopIdle ==
  /\ pc = [c \in Chains |-> "idle"]
  /\ cur = [c \in Chains |-> <<>>]
  /\ queue = [c \in Chains |-> <<>>]
  /\ timer = [c \in Chains |-> 0]
  /\ exec = [c \in Chains |-> <<>>]
  /\ orphans = <<>>
  /\ handled = [c \in Chains |-> <<>>]
  /\ tickBal = [c \in Chains |-> BalancesOf(world)]

(***************************************************************************)
(* Evaluator runs: the store as Solver.from leaves it, then block ticks.   *)
(***************************************************************************)
EvalInit ==
  /\ world \in [Chains -> SnapshotsOfA \cup SnapshotsOfB]
  /\ world[ChainA] \in SnapshotsOfA
  /\ world[ChainB] \in SnapshotsOfB
  /\ states = world
  /\ inFlight \in InFlightStates
  /\ variant \in {"v1", "v2"}
  /\ clock \in (IF variant = "v2" THEN {1000, 3000} ELSE {1000})  \* read by v2 only
  /\ evChain = 0
  /\ tickList = [c \in Chains |-> <<>>]
  /\ evPreBal = BalancesOf(world)
  /\ evInFlight = {}
  /\ fetchedBal = BalancesOf(world)
  /\ LoopIdle
  /\ BlocksLive
  /\ call = NoCall
  /\ routerStore = EmptyMap

\* Solver.fetchState / SolverV2.fetchState for one block event of chainId:
\* store the provider's snapshot, then calculate the trades.
FetchAndCalculate(chainId, snapshot) ==
  LET stored == [states EXCEPT ![chainId] = snapshot]
      result == Evaluate(chainId, inFlight, stored, clock)
  IN /\ states' = result.st
     /\ evChain' = chainId
     /\ tickList' = [tickList EXCEPT ![chainId] = result.trades]
     /\ evPreBal' = BalancesOf(stored)
     /\ evInFlight' = DOMAIN inFlight
     /\ fetchedBal' = [fetchedBal EXCEPT ![chainId] = snapshot.tokenBalances]

EvalTick(chainId) ==
  /\ FetchAndCalculate(chainId, world[chainId])
  /\ UNCHANGED <<routerStore, head, streams, process, call>>
  /\ UNCHANGED <<world, inFlight, variant, clock>>
  /\ UNCHANGED loopVars

EvalNext == \E chainId \in Chains : EvalTick(chainId)

SpecEval == EvalInit /\ [][EvalNext]_vars

(***************************************************************************)
(* TradeExecutor and the block loop of App (the simple evaluator).         *)
(***************************************************************************)
MaxOrphans == 1            \* executeTradeInternal calls left running past their deadline

TradeTimeoutMs == 10000    \* executeTrade: setTimeout(..., 10000)

\* Time advances in steps of the trade deadline, in seconds.
TimeStep == TradeTimeoutMs \div 1000

\* TradeExecutor.tokens: the token contracts configured per chain.
ConfiguredTokens(chainId) == IF chainId \in Chains THEN {"0xt1"} ELSE {}

\* util.toRequestId: 0x-prefixed, padded to 32 bytes, lower-case.
ToRequestId(hex) == Lower(hex)

\* The record a router returns for a request ID it holds nothing for.
EmptyRecord ==
  [srcChainId |-> U256(0, 0), sender |-> ZeroAddress, tokenIn |-> ZeroAddress,
   tokenOut |-> ZeroAddress, recipient |-> ZeroAddress, amountOut |-> 0, nonce |-> 0]

RouterRecord(requestId) ==
  IF requestId \in DOMAIN routerStore THEN routerStore[requestId] ELSE EmptyRecord

Answer(ok, record) ==
  [ok |-> ok, srcChainId |-> record.srcChainId, sender |-> record.sender,
   tokenIn |-> record.tokenIn, tokenOut |-> record.tokenOut,
   recipient |-> record.recipient, amountOut |-> record.amountOut,
   nonce |-> record.nonce]

\* What router.getSwapRequestParameters(paddedRequestId) on the destination
\* chain may answer: a rejection, or the record the router holds.
StoredAnswers(trade) ==
  { Answer(FALSE, EmptyRecord),
    Answer(TRUE, RouterRecord(ToRequestId(trade.requestId))) }

ActualParamsMixed(trade, stored) ==
  LET fromTrade == [tokenIn |-> Lower(trade.tokenInAddr), tokenOut |-> Lower(trade.tokenOutAddr),
                    sender |-> Lower(trade.senderAddr), recipient |-> Lower(trade.recipientAddr),
                    amountOut |-> trade.swapAmount, srcChainId |-> trade.srcChainId,
                    nonce |-> trade.nonce]
  IN IF stored.ok /\ stored.srcChainId # U256(0, 0) /\ Lower(stored.sender) # ZeroAddress
     THEN [fromTrade EXCEPT !.tokenIn = Lower(stored.tokenIn),
                            !.tokenOut = Lower(stored.tokenOut),
                            !.amountOut = stored.amountOut]
     ELSE fromTrade

\* The actual* values of executeTrade after the query of the destination chain.
ActualParams(trade, stored) ==
  IF stored.ok /\ stored.srcChainId # U256(0, 0) /\ Lower(stored.sender) # ZeroAddress
  THEN [tokenIn |-> Lower(stored.tokenIn), tokenOut |-> Lower(stored.tokenOut),
        sender |-> Lower(stored.sender), recipient |-> Lower(stored.recipient),
        amountOut |-> stored.amountOut, srcChainId |-> stored.srcChainId,
        nonce |-> stored.nonce]
  ELSE [tokenIn |-> Lower(trade.tokenInAddr), tokenOut |-> Lower(trade.tokenOutAddr),
        sender |-> Lower(trade.senderAddr), recipient |-> Lower(trade.recipientAddr),
        amountOut |-> trade.swapAmount, srcChainId |-> trade.srcChainId,
        nonce |-> trade.nonce]

ContractsFoundAnyToken(trade, actual) == NormalizeChainId(trade.destChainId) \in Chains

\* executeTrade finds the router and the token contract, or throws.
ContractsFound(trade, actual) ==
  /\ NormalizeChainId(trade.destChainId) \in Chains
  /\ Lower(actual.tokenOut) \in ConfiguredTokens(NormalizeChainId(trade.destChainId))

\* The call of executeTradeInternal, suspended at token.approve.
StartInternal(trade, actual) ==
  [requestId |-> trade.requestId,
   destChainId |-> NormalizeChainId(trade.destChainId),
   trade |-> trade,
   actual |-> actual,
   stage |-> "approveSend",
   approves |-> <<>>,
   relays |-> <<>>]

\* TradeExecutor.ownAddress.
OwnAddress == "0x501"

\* The arguments executeTradeInternal passes to router.relayTokens.
RelayArgs(e) ==
  [solver |-> Lower(OwnAddress),
   requestId |-> ToRequestId(e.requestId),
   sender |-> Lower(e.actual.sender),
   recipient |-> Lower(e.actual.recipient),
   tokenIn |-> Lower(e.actual.tokenIn),
   tokenOut |-> Lower(e.actual.tokenOut),
   amountOut |-> e.actual.amountOut,
   srcChainId |-> e.actual.srcChainId,
   nonce |-> e.actual.nonce]

\* The loop of execute over the trades it has not reached yet, up to its next
\* await: trades found in flight are skipped, the first other one is inserted
\* in the cache and executeTrade is called for it. inFlight.set stands outside
\* the try block: when it throws, execute rejects, the block loop logs the
\* error and the rest of the list is dropped.
RECURSIVE ExecuteLoop(_, _, _)
ExecuteLoop(trades, cache, log) ==
  IF trades = <<>>
  THEN [pc |-> "idle", cur |-> <<>>, queue |-> <<>>, cache |-> cache, log |-> log]
  ELSE IF InFlightHas(cache, Head(trades).requestId)
       THEN ExecuteLoop(Tail(trades), cache,
                        Append(log, [requestId |-> Head(trades).requestId,
                                     outcome |-> "skipped"]))
       ELSE IF InFlightFull(cache, Head(trades).requestId)
       THEN [pc |-> "idle", cur |-> <<>>, queue |-> <<>>, cache |-> cache, log |-> log]
       ELSE [pc |-> "reconcile", cur |-> <<Head(trades)>>, queue |-> Tail(trades),
             cache |-> InFlightSet(cache, Head(trades).requestId), log |-> log]

\* The catch block of execute.
CatchKeepsEntry(cache, requestId) == cache

Catch(cache, requestId) == InFlightDel(cache, requestId)

RejectedUnlessTimeout(outcome) == outcome \notin {"ok", "timeout"}

\* `await this.executeTrade(trade)` throws into the catch block: every
\* outcome but the fulfilment of the raced promise.
Rejected(outcome) == outcome # "ok"

\* execute resumes after executeTrade of cur[c] settled with `outcome`.
Resume(c, outcome) ==
  LET trade == cur[c][1]
      cache == IF Rejected(outcome) THEN Catch(inFlight, trade.requestId) ELSE inFlight
      next == ExecuteLoop(queue[c], cache,
                          Append(handled[c], [requestId |-> trade.requestId,
                                              outcome |-> outcome]))
  IN /\ pc' = [pc EXCEPT ![c] = next.pc]
     /\ cur' = [cur EXCEPT ![c] = next.cur]
     /\ queue' = [queue EXCEPT ![c] = next.queue]
     /\ inFlight' = next.cache
     /\ handled' = [handled EXCEPT ![c] = next.log]
     /\ timer' = [timer EXCEPT ![c] = 0]

\* One block event of chain c in App: solver.fetchState, then execute up to
\* its first await. (A block whose fetchState rejects is logged and changes
\* nothing.)
Tick(c) ==
  /\ pc[c] = "idle"
  /\ FetchAndCalculate(c, world[c])
  /\ tickBal' = [tickBal EXCEPT ![c] = BalancesOf(world)]
  /\ LET next == ExecuteLoop(tickList'[c], inFlight, <<>>)
     IN /\ pc' = [pc EXCEPT ![c] = next.pc]
        /\ cur' = [cur EXCEPT ![c] = next.cur]
        /\ queue' = [queue EXCEPT ![c] = next.queue]
        /\ inFlight' = next.cache
        /\ handled' = [handled EXCEPT ![c] = next.log]
  /\ UNCHANGED <<routerStore, head, streams, process, call>>
  /\ UNCHANGED <<world, variant, clock, timer, exec, orphans>>

AfterBlockErrorRethrown == "stopped"

\* Where the stream task of a chain is after a block whose processing threw:
\* the inner catch of the for await body logs the error, and the task awaits
\* the next block event.
AfterBlockError == "idle"

\* One block event of chain c whose chain.fetchState() rejects: Solver.fetchState
\* throws before this.states.set, no trades are calculated, execute is not
\* called.
TickSkipped(c) ==
  /\ pc[c] = "idle"
  /\ pc' = [pc EXCEPT ![c] = AfterBlockError]
  /\ UNCHANGED <<exec, orphans, timer, inFlight, cur, queue, handled, world,
                 states, variant, clock, evChain, tickList, evPreBal,
                 evInFlight, fetchedBal, tickBal>>
  /\ UNCHANGED <<routerStore, head, streams, process, call>>

\* router.getSwapRequestParameters settles with `stored`: executeTrade fixes
\* the actual parameters, looks up the contracts, and either throws or starts
\* the race of executeTradeInternal against the deadline.
ReconcileWith(c, stored) ==
  /\ LET actual == ActualParams(cur[c][1], stored)
     IN IF ContractsFound(cur[c][1], actual)
        THEN /\ pc' = [pc EXCEPT ![c] = "race"]
             /\ exec' = [exec EXCEPT ![c] = <<StartInternal(cur[c][1], actual)>>]
             /\ timer' = [timer EXCEPT ![c] = TimeStep]
             /\ UNCHANGED <<cur, queue, inFlight, handled>>
        ELSE /\ Resume(c, "aborted")
             /\ UNCHANGED exec
  /\ UNCHANGED <<routerStore, head, streams, process, call>>
  /\ UNCHANGED <<states, world, variant, clock, evChain, tickList, evPreBal,
                 evInFlight, fetchedBal, orphans, tickBal>>

Reconcile(c) ==
  /\ pc[c] = "reconcile"
  /\ \E stored \in StoredAnswers(cur[c][1]) : ReconcileWith(c, stored)

(***************************************************************************)
(* Network.fetchState: the reads of one snapshot, each of which may fail.  *)
(***************************************************************************)
\* The balances fetchState collects: a token whose balanceOf rejects is
\* logged and left out.
BalancesRead(chain, failing) ==
  [k \in (DOMAIN chain.tokenBalances) \ failing |-> chain.tokenBalances[k]]

\* fetchState of a chain whose contracts hold `chain`: balanceOf rejects for
\* the tokens in `failing`; getBalance is not caught; a rejected
\* getFulfilledTransfers or getUnfulfilledSolverRefunds leaves its list empty.
FetchState(chain, failing, nativeOk, fulfilledOk, refundsOk) ==
  LET tokenBalances == BalancesRead(chain, failing)
  IN [ok |-> nativeOk,
      state |-> [nativeBalance |-> chain.nativeBalance,
                 tokenBalances |-> tokenBalances,
                 transfers |-> IF refundsOk THEN chain.transfers ELSE <<>>,
                 alreadyFulfilled |-> IF fulfilledOk
                                      THEN {ToRequestId(id) : id \in chain.alreadyFulfilled}
                                      ELSE {}]]

\* One block event of chainId with the given outcomes of fetchState's reads.
FetchTick(chainId) ==
  /\ pc[chainId] = "idle"
  /\ \E failing \in SUBSET ConfiguredTokens(chainId),
        nativeOk, fulfilledOk, refundsOk \in BOOLEAN :
       LET fetched == FetchState(world[chainId], failing, nativeOk, fulfilledOk, refundsOk)
       IN IF fetched.ok
          THEN /\ FetchAndCalculate(chainId, fetched.state)
               /\ UNCHANGED pc
          ELSE /\ pc' = [pc EXCEPT ![chainId] = AfterBlockError]
               /\ UNCHANGED <<states, evChain, tickList, evPreBal, evInFlight, fetchedBal>>
  /\ UNCHANGED <<routerStore, head, streams, process, call>>
  /\ UNCHANGED <<world, inFlight, variant, clock, cur, queue, timer, exec,
                 orphans, handled, tickBal>>

\* The simple evaluator with an empty cache; the chains hold a balance of
\* every configured token, and A lists requests 0xr1 and 0xr2 only.
FetchInit ==
  /\ EvalInit
  /\ variant = "v1"
  /\ inFlight = EmptyMap
  /\ \A c \in Chains : DOMAIN world[c].tokenBalances = ConfiguredTokens(c)
  /\ \A i \in 1..Len(world[ChainA].transfers) :
       world[ChainA].transfers[i].requestId \in {"0xr1", "0xr2"}

FetchNext == \E chainId \in Chains : FetchTick(chainId)

SpecFetch == FetchInit /\ [][FetchNext]_vars

(***************************************************************************)
(* executeTradeInternal, one await at a time.                              *)
(***************************************************************************)
ReceiptOutcomes == {"ok", "null", "reverted", "throw"}

ReceiptFailsUnchecked(receipt) == receipt \in {"null", "throw"}

\* `!receipt`, `receipt.status === 0`, or wait() rejecting.
ReceiptFails(receipt) == receipt \in {"null", "reverted", "throw"}

\* The relay can be mined successfully only for a request the destination
\* router has not fulfilled yet and with the tokens at hand.
RelayCanSucceed(e) ==
  /\ LET record == RouterRecord(ToRequestId(e.requestId))
         sent == RelayArgs(e)
     IN (record.srcChainId # U256(0, 0) /\ Lower(record.sender) # ZeroAddress)
          => /\ sent.sender = Lower(record.sender)
             /\ sent.recipient = Lower(record.recipient)
             /\ sent.tokenIn = Lower(record.tokenIn)
             /\ sent.tokenOut = Lower(record.tokenOut)
             /\ sent.amountOut = record.amountOut
             /\ sent.srcChainId = record.srcChainId
             /\ sent.nonce = record.nonce
  /\ e.requestId \notin world[e.destChainId].alreadyFulfilled
  /\ e.actual.tokenOut \in DOMAIN world[e.destChainId].tokenBalances
  /\ world[e.destChainId].tokenBalances[e.actual.tokenOut] >= e.actual.amountOut

Relayed(e) ==
  [world EXCEPT ![e.destChainId].alreadyFulfilled = @ \cup {e.requestId},
                ![e.destChainId].tokenBalances =
                   MapSet(@, e.actual.tokenOut, @[e.actual.tokenOut] - e.actual.amountOut)]

\* The steps of one call e: the set of [e |-> the call after the step,
\* result |-> "run" | "ok" | "failed", world |-> the chains after the step].
InternalSteps(e) ==
  CASE e.stage = "approveSend" ->
         { [e |-> [e EXCEPT !.stage = "approveWait",
                            !.approves = Append(@, [token |-> e.actual.tokenOut,
                                                    spender |-> e.destChainId,
                                                    amount |-> e.actual.amountOut,
                                                    receipt |-> "pending"])],
            result |-> "run", world |-> world],
           [e |-> e, result |-> "failed", world |-> world] }
    [] e.stage = "approveWait" ->
         { IF ReceiptFails(receipt)
           THEN [e |-> [e EXCEPT !.approves[Len(e.approves)].receipt = receipt],
                 result |-> "failed", world |-> world]
           ELSE [e |-> [e EXCEPT !.stage = "sleep",
                                 !.approves[Len(e.approves)].receipt = receipt],
                 result |-> "run", world |-> world]
           : receipt \in ReceiptOutcomes }
    [] e.stage = "sleep" ->
         { [e |-> [e EXCEPT !.stage = "relaySend"], result |-> "run", world |-> world] }
    [] e.stage = "relaySend" ->
         { [e |-> [e EXCEPT !.stage = "relayWait", !.relays = Append(@, RelayArgs(e))],
            result |-> "run", world |-> world],
           [e |-> e, result |-> "failed", world |-> world] }
    [] e.stage = "relayWait" ->
         { IF ReceiptFails(receipt)
           THEN [e |-> e, result |-> "failed", world |-> world]
           ELSE [e |-> e, result |-> "ok", world |-> Relayed(e)]
           : receipt \in {r \in ReceiptOutcomes : r = "ok" => RelayCanSucceed(e)} }
    [] OTHER -> {}

\* A step of the call execute is awaiting on chain c.
InternalStep(c) ==
  /\ pc[c] = "race"
  /\ \E step \in InternalSteps(exec[c][1]) :
       /\ world' = step.world
       /\ IF step.result = "run"
          THEN /\ exec' = [exec EXCEPT ![c] = <<step.e>>]
               /\ UNCHANGED <<pc, cur, queue, inFlight, handled, timer>>
          ELSE /\ exec' = [exec EXCEPT ![c] = <<>>]
               /\ Resume(c, step.result)
  /\ UNCHANGED <<routerStore, head, streams, process, call>>
  /\ UNCHANGED <<states, variant, clock, evChain, tickList, evPreBal,
                 evInFlight, fetchedBal, orphans, tickBal>>

\* The deadline fires first: Promise.race rejects, execute handles the
\* failure, and the call of executeTradeInternal keeps running on its own.
Timeout(c) ==
  /\ pc[c] = "race"
  /\ timer[c] = 0
  /\ Len(orphans) < MaxOrphans
  /\ orphans' = Append(orphans, exec[c][1])
  /\ exec' = [exec EXCEPT ![c] = <<>>]
  /\ Resume(c, "timeout")
  /\ UNCHANGED <<routerStore, head, streams, process, call>>
  /\ UNCHANGED <<states, world, variant, clock, evChain, tickList, evPreBal,
                 evInFlight, fetchedBal, tickBal>>

RemoveAt(q, i) == SubSeq(q, 1, i - 1) \o SubSeq(q, i + 1, Len(q))

\* A step of a call whose deadline has fired.
OrphanStep(i) ==
  /\ i \in 1..Len(orphans)
  /\ \E step \in InternalSteps(orphans[i]) :
       /\ world' = step.world
       /\ orphans' = IF step.result = "run"
                     THEN [orphans EXCEPT ![i] = step.e]
                     ELSE RemoveAt(orphans, i)
  /\ UNCHANGED <<routerStore, head, streams, process, call>>
  /\ UNCHANGED <<states, inFlight, variant, clock, evChain, tickList, evPreBal,
                 evInFlight, fetchedBal, pc, cur, queue, timer, exec, handled, tickBal>>

\* TimeStep seconds pass: cache entries age and those whose TTL is over are
\* gone, deadlines run down.
\* A deadline that is due fires (or its call settles) before more time passes.
Advance ==
  /\ \A c \in Chains : pc[c] = "race" => timer[c] > 0
  /\ inFlight' = [k \in {x \in DOMAIN inFlight : inFlight[x] > TimeStep} |->
                    inFlight[k] - TimeStep]
  /\ timer' = [c \in Chains |-> IF pc[c] = "race" THEN timer[c] - TimeStep ELSE timer[c]]
  /\ \/ inFlight' # inFlight
     \/ timer' # timer
  /\ UNCHANGED <<routerStore, head, streams, process, call>>
  /\ UNCHANGED <<states, world, variant, clock, evChain, tickList, evPreBal,
                 evInFlight, fetchedBal, pc, cur, queue, exec, orphans, handled, tickBal>>

\* A record of router B for a request of LoopWorld, as verification wrote it.
Verified(recipient, tokenOut) ==
  [srcChainId |-> U256(0, ChainA), sender |-> "0xa11ce", tokenIn |-> "0xt1",
   tokenOut |-> tokenOut, recipient |-> recipient, amountOut |-> 1, nonce |-> 1]

\* Router B as the loop starts: 0xr1 is verified (addresses check-summed),
\* 0xr2 is not verified yet.
LoopRouter == [r \in {"0xr1"} |-> Verified("0xB0b", "0xT1")]

\* The chains as the loop starts: A lists two requests for B, B none, and
\* B holds the tokens for both.
LoopWorld ==
  [c \in Chains |->
     IF c = ChainA
     THEN [nativeBalance |-> 10000,
           tokenBalances |-> [k \in {"0xt1"} |-> 1],
           transfers |-> << Xfer("0xr1", ChainA, U256(0, ChainB), "0xt1", 1, 40, FALSE,
                                 "0xa11ce", NoCondition),
                            Xfer("0xr2", ChainA, U256(0, ChainB), "0xt1", 1, 40, FALSE,
                                 "0xa11ce", NoCondition) >>,
           alreadyFulfilled |-> {}]
     ELSE [nativeBalance |-> 10000,
           tokenBalances |-> [k \in {"0xt1"} |-> 2],
           transfers |-> <<>>,
           alreadyFulfilled |-> {}]]

\* App.start has run Solver.from, created the executor and the empty cache,
\* and every chain's task awaits its first block.
LoopStart ==
  /\ world = LoopWorld
  /\ states = world
  /\ inFlight = EmptyMap
  /\ variant = "v1"
  /\ clock = 1000
  /\ evChain = 0
  /\ tickList = [c \in Chains |-> <<>>]
  /\ evPreBal = BalancesOf(world)
  /\ evInFlight = {}
  /\ fetchedBal = BalancesOf(world)
  /\ LoopIdle

Init ==
  /\ LoopStart
  /\ BlocksLive
  /\ call = NoCall
  /\ routerStore = LoopRouter

Next ==
  \/ \E c \in Chains : Tick(c)
  \/ \E c \in Chains : TickSkipped(c)
  \/ \E c \in Chains : Reconcile(c)
  \/ \E c \in Chains : InternalStep(c)
  \/ \E c \in Chains : Timeout(c)
  \/ \E i \in 1..MaxOrphans : OrphanStep(i)
  \/ Advance

Spec == Init /\ [][Next]_vars

(***************************************************************************)
(* The block streams from App.start on: chains mine blocks, each           *)
(* subscription connects, receives 'block' events and poll results, and    *)
(* yields; the loop body run for a yielded block is the Tick of Spec.      *)
(***************************************************************************)
SolverUnchanged ==
  UNCHANGED <<states, world, inFlight, variant, clock, evChain, tickList,
              evPreBal, evInFlight, fetchedBal, pc, cur, queue, timer, exec,
              orphans, handled, tickBal, routerStore, call>>

\* A new block on chain c.
Mine(c) ==
  /\ process = "running"
  /\ head[c] < MaxBlock
  /\ head' = [head EXCEPT ![c] = @ + 1]
  /\ UNCHANGED <<streams, process>>
  /\ SolverUnchanged

\* The first next() of the for-await: the handler is registered and the
\* initial getBlockNumber is sent.
Subscribe(c) ==
  /\ process = "running"
  /\ streams[c].status = "created"
  /\ streams' = [streams EXCEPT ![c] = [@ EXCEPT !.status = "connecting",
                                                  !.delivered = head[c]]]
  /\ UNCHANGED <<head, process>>
  /\ SolverUnchanged

\* The provider delivers the 'block' event of the next block.
PushBlock(c) ==
  /\ process = "running"
  /\ streams[c].status \in {"connecting", "live"}
  /\ streams[c].delivered < head[c]
  /\ streams' = [streams EXCEPT ![c] =
                   [BlockHandler(@, @.delivered + 1) EXCEPT !.delivered = @ + 1]]
  /\ UNCHANGED <<head, process>>
  /\ SolverUnchanged

\* The node answers the initial getBlockNumber with its current block.
InitRead(c) ==
  /\ process = "running"
  /\ streams[c].status = "connecting"
  /\ streams[c].reply = Undefined
  /\ streams' = [streams EXCEPT ![c] = [@ EXCEPT !.reply = head[c]]]
  /\ UNCHANGED <<head, process>>
  /\ SolverUnchanged

\* The answer arrives: lastBlockNumber is assigned and the yield loop starts.
InitReply(c) ==
  /\ process = "running"
  /\ streams[c].status = "connecting"
  /\ streams[c].reply # Undefined
  /\ streams' = [streams EXCEPT ![c] = [@ EXCEPT !.status = "live",
                                                  !.last = streams[c].reply,
                                                  !.reply = Undefined]]
  /\ UNCHANGED <<head, process>>
  /\ SolverUnchanged

\* The initial getBlockNumber rejects: the generator rethrows, and so does
\* the stream task's outer catch; Promise.all rejects, start rejects, and
\* main's catch calls process.exit(1).
InitFail(c) ==
  /\ process = "running"
  /\ streams[c].status = "connecting"
  /\ streams[c].reply = Undefined
  /\ streams' = [streams EXCEPT ![c] = [@ EXCEPT !.status = "failed"]]
  /\ process' = "exited"
  /\ UNCHANGED head
  /\ SolverUnchanged

\* The 2-second poll sends getBlockNumber and the node answers.
PollRead(c) ==
  /\ process = "running"
  /\ streams[c].status = "live"
  /\ streams[c].poll = Undefined
  /\ streams' = [streams EXCEPT ![c] = [@ EXCEPT !.poll = head[c]]]
  /\ UNCHANGED <<head, process>>
  /\ SolverUnchanged

\* The poll callback once getBlockNumber has answered: blockHandler for a
\* block above lastBlockNumber, nothing otherwise.
PollResultIgnored(s) == s

PollResult(s) == IF s.poll > s.last THEN BlockHandler(s, s.poll) ELSE s

\* The poll's answer arrives.
PollReply(c) ==
  /\ process = "running"
  /\ streams[c].status = "live"
  /\ streams[c].poll # Undefined
  /\ streams' = [streams EXCEPT ![c] =
                   [PollResult(@) EXCEPT !.poll = Undefined]]
  /\ UNCHANGED <<head, process>>
  /\ SolverUnchanged

\* The poll's getBlockNumber rejects: logged, nothing else.
PollFailed(c) ==
  /\ process = "running"
  /\ streams[c].status = "live"
  /\ streams[c].poll = Undefined
  /\ UNCHANGED <<head, streams, process>>
  /\ SolverUnchanged

\* The yield loop hands the next queued number to the for-await.
Yield(c) ==
  /\ process = "running"
  /\ streams[c].status = "live"
  /\ streams[c].blockQueue # <<>>
  /\ streams' = [streams EXCEPT ![c] =
                   [@ EXCEPT !.yielded = Append(@, streams[c].blockQueue[1]),
                             !.blockQueue = Tail(@)]]
  /\ UNCHANGED <<head, process>>
  /\ SolverUnchanged

BlocksInit ==
  /\ LoopStart
  /\ routerStore = LoopRouter
  /\ head = [c \in Chains |-> 0]
  /\ streams = [c \in Chains |-> Stream("created", Undefined)]
  /\ process = "running"
  /\ call = NoCall

BlocksNext ==
  \/ \E c \in Chains : Mine(c)
  \/ \E c \in Chains : Subscribe(c)
  \/ \E c \in Chains : PushBlock(c)
  \/ \E c \in Chains : InitRead(c)
  \/ \E c \in Chains : InitReply(c)
  \/ \E c \in Chains : InitFail(c)
  \/ \E c \in Chains : PollRead(c)
  \/ \E c \in Chains : PollReply(c)
  \/ \E c \in Chains : PollFailed(c)
  \/ \E c \in Chains : Yield(c)

SpecBlocks == BlocksInit /\ [][BlocksNext]_vars

(***************************************************************************)
(* Streams past their initial getBlockNumber: push events and polls.       *)
(***************************************************************************)
LiveNext ==
  \/ \E c \in Chains : Mine(c)
  \/ \E c \in Chains : PushBlock(c)
  \/ \E c \in Chains : PollRead(c)
  \/ \E c \in Chains : PollReply(c)
  \/ \E c \in Chains : PollFailed(c)
  \/ \E c \in Chains : Yield(c)

SpecLive == Init /\ [][LiveNext]_vars

(***************************************************************************)
(* Calls of the util functions on their own.                               *)
(***************************************************************************)
UtilInit ==
  /\ LoopStart
  /\ BlocksLive
  /\ routerStore = LoopRouter
  /\ call \in {Called("toRequestId", hex) : hex \in HexStrings}
            \cup {Called("normalizeChainId", x) : x \in ChainIdValues}

\* toRequestId(x), then toRequestId of its result.
ApplyToRequestId ==
  /\ call.fn = "toRequestId"
  /\ call.step < 2
  /\ call' = IF call.step = 0
             THEN [call EXCEPT !.step = 1, !.once = ToRequestIdChars(call.arg)]
             ELSE [call EXCEPT !.step = 2, !.twice = ToRequestIdChars(call.once)]
  /\ UNCHANGED <<head, streams, process>>
  /\ UNCHANGED <<states, world, inFlight, variant, clock, evChain, tickList,
                 evPreBal, evInFlight, fetchedBal, pc, cur, queue, timer, exec,
                 orphans, handled, tickBal, routerStore>>

\* normalizeChainId(x).
ApplyNormalizeChainId ==
  /\ call.fn = "normalizeChainId"
  /\ call.step = 0
  /\ call' = [call EXCEPT !.step = 1, !.once = NormalizeChainIdNumber(call.arg)]
  /\ UNCHANGED <<head, streams, process>>
  /\ UNCHANGED <<states, world, inFlight, variant, clock, evChain, tickList,
                 evPreBal, evInFlight, fetchedBal, pc, cur, queue, timer, exec,
                 orphans, handled, tickBal, routerStore>>

UtilNext ==
  \/ ApplyToRequestId
  \/ ApplyNormalizeChainId

SpecUtil == UtilInit /\ [][UtilNext]_vars

(***************************************************************************)
(* Live streams whose push subscription stays silent: the interval timer   *)
(* keeps polling, every poll is answered, and the for-await keeps pulling. *)
(***************************************************************************)
PollNext ==
  \/ \E c \in Chains : Mine(c)
  \/ \E c \in Chains : PollRead(c)
  \/ \E c \in Chains : PollReply(c)
  \/ \E c \in Chains : Yield(c)

PollFairness ==
  \A c \in Chains : /\ WF_vars(PollRead(c))
                     /\ WF_vars(PollReply(c))
                     /\ WF_vars(Yield(c))

SpecPoll == Init /\ [][PollNext]_vars /\ PollFairness

(***************************************************************************)
(* The executor against every kind of record router B may hold for 0xr1:   *)
(* ticks of chain A and the executions they start, without deadlines.      *)
(***************************************************************************)
RouterRecordsOfR1 ==
  { Verified("0xB0b", "0xT1"),
    Verified("0xCafe", "0xT1"),
    Verified("0xCafe", "0xT2"),
    [Verified("0xCafe", "0xT1") EXCEPT !.sender = ZeroAddress],
    [Verified("0xCafe", "0xT1") EXCEPT !.srcChainId = U256(0, 0)] }

RouterStores == {EmptyMap} \cup {[r \in {"0xr1"} |-> record] : record \in RouterRecordsOfR1}

ExecInit ==
  /\ LoopStart
  /\ BlocksLive
  /\ call = NoCall
  /\ routerStore \in RouterStores

ExecNext ==
  \/ Tick(ChainA)
  \/ Reconcile(ChainA)
  \/ InternalStep(ChainA)

SpecExec == ExecInit /\ [][ExecNext]_vars

(***************************************************************************)
(* The loop of chain A with the in-flight cache at, or one short of, its   *)
(* capacity: live entries of requests other chains' ticks have executed.   *)
(***************************************************************************)
OtherRequestIds(n) == {"0xf" \o ToString(i) : i \in 1..n}

FullInit ==
  /\ BlocksLive
  /\ call = NoCall
  /\ routerStore = LoopRouter
  /\ world = LoopWorld
  /\ states = world
  /\ variant = "v1"
  /\ clock = 1000
  /\ evChain = 0
  /\ tickList = [c \in Chains |-> <<>>]
  /\ evPreBal = BalancesOf(world)
  /\ evInFlight = {}
  /\ fetchedBal = BalancesOf(world)
  /\ \E n \in {MaxKeys - 1, MaxKeys} :
       inFlight = [k \in OtherRequestIds(n) |-> InFlightTTL]
  /\ LoopIdle

FullNext ==
  \/ Tick(ChainA)
  \/ Reconcile(ChainA)
  \/ InternalStep(ChainA)
  \/ Advance

SpecFull == FullInit /\ [][FullNext]_vars

(***************************************************************************)
(* Claims about one evaluator call (checked under SpecEval).               *)
(***************************************************************************)
RECURSIVE SumAmounts(_, _, _)
SumAmounts(trades, destChainId, token) ==
  IF trades = <<>> THEN 0
  ELSE (IF NormalizeChainId(Head(trades).destChainId) = destChainId
           /\ Head(trades).tokenOutAddr = token
        THEN Head(trades).swapAmount ELSE 0)
       + SumAmounts(Tail(trades), destChainId, token)

TradeKeys(trades) ==
  {<<NormalizeChainId(trades[i].destChainId), trades[i].tokenOutAddr>> :
     i \in 1..Len(trades)}

\* C2: after an evaluator call returns, the persistent store's tokenBalances
\* of every chain equal what that chain's last fetchState stored (the
\* inventory debit of the call is not visible in the persistent store).
C2_DebitStaysInClone ==
  evChain # 0 => \A d \in Chains : states[d].tokenBalances = fetchedBal[d]

\* C3: for every destination chain D and token K, the swapAmounts of the
\* Trades one evaluator call emits for (D, K) sum to at most the balance of K
\* in State[D] when the call began.
C3_SumWithinBalance ==
  \A key \in TradeKeys(evTrades) :
    /\ key[1] \in DOMAIN evPreBal
    /\ key[2] \in DOMAIN evPreBal[key[1]]
    /\ SumAmounts(evTrades, key[1], key[2]) <= evPreBal[key[1]][key[2]]

C3_Witness ==
  /\ variant = "v2"
  /\ Len(evTrades) >= 2
  /\ \E key \in TradeKeys(evTrades) :
       /\ SumAmounts(evTrades, key[1], key[2]) = evPreBal[key[1]][key[2]]
       /\ SumAmounts(evTrades, key[1], key[2]) > Head(evTrades).swapAmount

\* C4: no two Trades returned by one evaluator call have the same requestId.
C4_DistinctRequestIds ==
  \A i, j \in 1..Len(evTrades) :
    i # j => evTrades[i].requestId # evTrades[j].requestId

\* C5: every emitted Trade's destination snapshot, looked up by
\* normalizeChainId(dstChainId), does not list the Trade's requestId in
\* alreadyFulfilled when the Trade is emitted.
C5_NotFulfilledWhenEmitted ==
  \A i \in 1..Len(evTrades) :
    LET d == NormalizeChainId(evTrades[i].destChainId)
    IN /\ d \in DOMAIN states
       /\ evTrades[i].requestId \notin states[d].alreadyFulfilled

C5_Witness ==
  /\ evChain = ChainA
  /\ Len(evTrades) >= 1
  /\ \E i \in 1..Len(states[ChainA].transfers) :
       states[ChainA].transfers[i].requestId \in states[ChainB].alreadyFulfilled


(***************************************************************************)
(* Claims about the executor and the block loop (specification Spec).      *)
(***************************************************************************)
RequestIds(list) == {list[i].requestId : i \in 1..Len(list)}

\* The calls of executeTradeInternal that can still submit or confirm a
\* transaction: the ones execute is awaiting and the ones past their deadline.
Executions ==
  {<<"awaited", c>> : c \in {x \in Chains : pc[x] = "race"}}
    \cup {<<"orphan", i>> : i \in 1..Len(orphans)}

ExecutionOf(x) == IF x[1] = "awaited" THEN exec[x[2]][1] ELSE orphans[x[2]]

\* C1: at any moment at most one execution (approve -> relay) of a given
\* request ID is in progress, also after an earlier execution hit the 10 s
\* deadline and its in-flight entry was deleted.
C1_OneExecutionPerRequest ==
  \A x, y \in Executions :
    ExecutionOf(x).requestId = ExecutionOf(y).requestId => x = y

\* C6: while execute is inside executeTrade for a trade (from its first
\* network call on), the trade's request ID is in the in-flight cache.
C6_InFlightWhileExecuting ==
  \A c \in Chains :
    pc[c] \in {"reconcile", "race"} => InFlightHas(inFlight, cur[c][1].requestId)

\* C7: a call that has got as far as the relay has made exactly one approve,
\* of its amountOut, on its destination token, for the destination router,
\* and that approve's receipt was successful; so no relay follows an approve
\* that threw, had no receipt or reverted.
C7_RelayAfterOneGoodApprove ==
  \A x \in Executions :
    LET e == ExecutionOf(x)
    IN e.stage \in {"sleep", "relaySend", "relayWait"} =>
         /\ Len(e.approves) = 1
         /\ e.approves[1] = [token |-> e.actual.tokenOut, spender |-> e.destChainId,
                             amount |-> e.actual.amountOut, receipt |-> "ok"]

C7_Witness ==
  \E c \in Chains :
    /\ pc[c] = "race"
    /\ exec[c][1].stage = "relayWait"
    /\ exec[c][1].approves[1].receipt = "ok"

StillOpen(c, r) ==
  \E i \in 1..Len(world[c].transfers) :
    LET transfer == world[c].transfers[i]
        d == NormalizeChainId(transfer.params.dstChainId)
    IN /\ transfer.requestId = r
       /\ ~transfer.params.executed
       /\ d \in Chains
       /\ r \notin states'[d].alreadyFulfilled

C9_FailureDeletesAndContinues ==
  \A c \in Chains :
    /\ \A i \in 1..Len(handled[c]) :
         handled[c][i].outcome = "failed"
           => ~InFlightHas(inFlight, handled[c][i].requestId)
    /\ Len(handled[c]) <= Len(tickList[c])
    /\ \A i \in 1..Len(handled[c]) : handled[c][i].requestId = tickList[c][i].requestId
    /\ pc[c] = "idle" => Len(handled[c]) = Len(tickList[c])
    /\ pc[c] # "idle" => cur[c][1] = tickList[c][Len(handled[c]) + 1]

\* The first trade of the list failed and execute went on to the second.
C9_Witness ==
  \E c \in Chains :
    /\ Len(handled[c]) = 2
    /\ handled[c][1].outcome = "failed"
    /\ handled[c][2].outcome = "ok"
    /\ pc[c] = "idle"

\* The chain's balances of the destination are what they were at the tick
\* whose execution failed, and they cover the transfer.
SameSufficientBalances(c, r) ==
  \E i \in 1..Len(world[c].transfers) :
    LET transfer == world[c].transfers[i]
        d == NormalizeChainId(transfer.params.dstChainId)
        token == Lower(transfer.params.tokenOut)
    IN /\ transfer.requestId = r
       /\ d \in Chains
       /\ r \notin world[d].alreadyFulfilled
       /\ world[d].nativeBalance > 0
       /\ world[d].tokenBalances = tickBal[c][d]
       /\ token \in DOMAIN tickBal[c][d]
       /\ tickBal[c][d][token] >= transfer.params.amountOut

\* C10: after an execution of R failed in a tick on chain c, the next tick on
\* c emits a trade for R again, given R is still listed, not executed, not
\* fulfilled, and the destination balances are those of the failed tick.
C10_RetriedOnNextTick ==
  [][\A c \in Chains :
       Tick(c) =>
         \A i \in 1..Len(handled[c]) :
           ( /\ handled[c][i].outcome = "failed"
             /\ StillOpen(c, handled[c][i].requestId)
             /\ SameSufficientBalances(c, handled[c][i].requestId) )
             => handled[c][i].requestId \in RequestIds(tickList'[c])]_vars

\* C11: a trade whose approve + relay had not completed when the 10 s
\* deadline fired is handled as a failure: its in-flight entry is deleted and
\* execute goes on with the next trade of the list (or returns at its end).
C11_DeadlineCountsAsFailure ==
  \A c \in Chains :
    \A i \in 1..Len(handled[c]) :
      handled[c][i].outcome = "timeout" =>
        /\ ~InFlightHas(inFlight, handled[c][i].requestId)
        /\ \/ i < Len(handled[c])
           \/ pc[c] = "idle" /\ i = Len(tickList[c])
           \/ pc[c] # "idle" /\ cur[c][1] = tickList[c][i + 1]

\* The deadline of the first trade fired and execute is at the second.
C11_Witness ==
  \E c \in Chains :
    /\ Len(handled[c]) = 1
    /\ handled[c][1].outcome = "timeout"
    /\ Len(orphans) = 1
    /\ pc[c] = "reconcile"
    /\ cur[c][1].requestId = "0xr2"

ExpectedParams(trade, stored) ==
  IF stored.ok /\ stored.srcChainId # U256(0, 0) /\ Lower(stored.sender) # ZeroAddress
  THEN [tokenIn |-> Lower(stored.tokenIn), tokenOut |-> Lower(stored.tokenOut),
        sender |-> Lower(stored.sender), recipient |-> Lower(stored.recipient),
        amountOut |-> stored.amountOut, srcChainId |-> stored.srcChainId,
        nonce |-> stored.nonce]
  ELSE [tokenIn |-> trade.tokenInAddr, tokenOut |-> trade.tokenOutAddr,
        sender |-> trade.senderAddr, recipient |-> trade.recipientAddr,
        amountOut |-> trade.swapAmount, srcChainId |-> trade.srcChainId,
        nonce |-> trade.nonce]

\* The relay an execution has submitted carries its parameter set.
RelayCarries(e) ==
  e.stage = "relayWait" =>
    /\ Len(e.relays) = 1
    /\ e.relays[1] = [solver |-> "0x501", requestId |-> e.trade.requestId,
                      sender |-> e.actual.sender, recipient |-> e.actual.recipient,
                      tokenIn |-> e.actual.tokenIn, tokenOut |-> e.actual.tokenOut,
                      amountOut |-> e.actual.amountOut,
                      srcChainId |-> e.actual.srcChainId, nonce |-> e.actual.nonce]

\* C14: the parameters sent to relayTokens are the router's record when the
\* answer has a non-zero srcChainId and a non-zero sender, and the Trade's
\* values otherwise (also when the query was rejected); never a mixture.
C14_RelayParameters ==
  [][/\ \A c \in Chains :
          \A stored \in (IF pc[c] = "reconcile" THEN StoredAnswers(cur[c][1]) ELSE {}) :
            (ReconcileWith(c, stored) /\ pc'[c] = "race")
              => exec'[c][1].actual = ExpectedParams(cur[c][1], stored)
     /\ \A c \in Chains :
          (pc'[c] = "race" => RelayCarries(exec'[c][1]))
     /\ \A i \in 1..Len(orphans') : RelayCarries(orphans'[i])]_vars

\* A relay was submitted with the recipient of the router's verified record,
\* which differs from the Trade's.
C14_Witness ==
  /\ pc[ChainA] = "race"
  /\ exec[ChainA][1].stage = "relayWait"
  /\ exec[ChainA][1].relays[1].recipient = "0xcafe"
  /\ exec[ChainA][1].trade.recipientAddr = "0xb0b"

(***************************************************************************)
(* Claims about the block streams (specification SpecBlocks).              *)
(***************************************************************************)
\* C12: the loop ends with a fatal error only when every chain's block
\* stream has terminated; one stream's failure while another is live does
\* not end the process.
C12_FatalOnlyWhenAllTerminated ==
  process = "exited" => \A c \in Chains : streams[c].status = "failed"

\* C20: the numbers one stream yields are strictly increasing and gap-free,
\* each the previous plus 1.
C20_YieldedGapFree ==
  \A c \in Chains : \A i \in 2..Len(streams[c].yielded) :
    streams[c].yielded[i] = streams[c].yielded[i - 1] + 1

(***************************************************************************)
(* Claims about what the evaluators emit (specification SpecEval).         *)
(***************************************************************************)
\* The skip rules of the simple evaluator for one transfer, against the
\* destination balances left by the trades emitted before it in the tick.
NoSkipRuleApplies(transfer, bal) ==
  LET d == NormalizeChainId(transfer.params.dstChainId)
      token == Lower(transfer.params.tokenOut)
  IN /\ d \in DOMAIN states
     /\ ~\E id \in states[d].alreadyFulfilled : Lower(id) = Lower(transfer.requestId)
     /\ transfer.requestId \notin evInFlight
     /\ ~transfer.params.executed
     /\ states[d].nativeBalance # 0
     /\ token \in DOMAIN bal[d]
     /\ ~(bal[d][token] < transfer.params.amountOut)
     /\ transfer.params.solverFee >= 1

\* The request IDs the skip rules let through, in list order.
RECURSIVE IdsPassingRules(_, _)
IdsPassingRules(transfers, bal) ==
  IF transfers = <<>> THEN <<>>
  ELSE LET t == Head(transfers)
           d == NormalizeChainId(t.params.dstChainId)
           token == Lower(t.params.tokenOut)
       IN IF NoSkipRuleApplies(t, bal)
          THEN <<t.requestId>>
               \o IdsPassingRules(Tail(transfers),
                    [bal EXCEPT ![d] = MapSet(@, token, @[token] - t.params.amountOut)])
          ELSE IdsPassingRules(Tail(transfers), bal)

EmittedIds == [i \in 1..Len(tickList[evChain]) |-> tickList[evChain][i].requestId]

\* C15: the simple evaluator emits a Trade for a Transfer if and only if no
\* skip rule applies to it, transfers with amountOut = 0 included.
C15_EmitsIffNoSkipRule ==
  (variant = "v1" /\ evChain # 0) =>
    EmittedIds = IdsPassingRules(states[evChain].transfers, evPreBal)

\* a is b with some elements left out.
RECURSIVE IsSubsequence(_, _)
IsSubsequence(a, b) ==
  IF a = <<>> THEN TRUE
  ELSE IF b = <<>> THEN FALSE
  ELSE IF Head(a) = Head(b) THEN IsSubsequence(Tail(a), Tail(b))
  ELSE IsSubsequence(a, Tail(b))

ListedTransfers == states[evChain].transfers

ListedIds == [i \in 1..Len(ListedTransfers) |-> ListedTransfers[i].requestId]

SameInventory(t, u) ==
  /\ NormalizeChainId(t.params.dstChainId) = NormalizeChainId(u.params.dstChainId)
  /\ Lower(t.params.tokenOut) = Lower(u.params.tokenOut)

\* The transfers at positions i < j are two requests for one destination token
\* balance that covers either of them but not both, and no transfer listed
\* before i draws on it.
Compete(i, j) ==
  LET t == ListedTransfers[i]
      u == ListedTransfers[j]
      d == NormalizeChainId(t.params.dstChainId)
  IN /\ i < j
     /\ t.requestId # u.requestId
     /\ SameInventory(t, u)
     /\ NoSkipRuleApplies(t, evPreBal)
     /\ NoSkipRuleApplies(u, evPreBal)
     /\ t.params.amountOut > 0
     /\ u.params.amountOut > 0
     /\ t.params.amountOut + u.params.amountOut > evPreBal[d][Lower(t.params.tokenOut)]
     /\ \A k \in 1..(i - 1) : ~(SameInventory(ListedTransfers[k], t)
                                /\ NoSkipRuleApplies(ListedTransfers[k], evPreBal))

\* C16: the simple evaluator returns its Trades in the order of the source
\* chain's transfers list, and of two Transfers competing for a balance that
\* covers only one, the earlier is emitted and the later skipped.
C16_SourceOrderEarlierWins ==
  (variant = "v1" /\ evChain # 0) =>
    /\ IsSubsequence(EmittedIds, ListedIds)
    /\ \A i, j \in 1..Len(ListedTransfers) :
         Compete(i, j) =>
           /\ \E n \in 1..Len(EmittedIds) : EmittedIds[n] = ListedIds[i]
           /\ \A n \in 1..Len(EmittedIds) : EmittedIds[n] # ListedIds[j]

\* The larger request 0xr2 is listed before 0xr1, the balance covers only
\* one of them, and 0xr2 alone was emitted.
C16_Witness ==
  /\ variant = "v1"
  /\ evChain = ChainA
  /\ Len(ListedTransfers) = 2
  /\ Compete(1, 2)
  /\ ListedIds = <<"0xr2", "0xr1">>
  /\ EmittedIds = <<"0xr2">>

\* Every check of the run's evaluator other than the comparison of the
\* destination token balance with amountOut lets the transfer through: the
\* skip rules, and for the scored evaluator its conditions, the configured
\* minimum fee, and a risk that is acceptable when liquidity is good.
OtherChecksPass(transfer) ==
  LET d == NormalizeChainId(transfer.params.dstChainId)
      token == Lower(transfer.params.tokenOut)
  IN /\ d \in DOMAIN states
     /\ ~\E id \in states[d].alreadyFulfilled : Lower(id) = Lower(transfer.requestId)
     /\ transfer.requestId \notin evInFlight
     /\ ~transfer.params.executed
     /\ states[d].nativeBalance # 0
     /\ token \in DOMAIN evPreBal[d]
     /\ transfer.params.solverFee >= 1
     /\ variant = "v2" =>
          /\ EvaluateConditions(transfer.conditions, transfer, states, clock)
          /\ transfer.params.solverFee >= MinSolverFee
          /\ 1 + AssessFeeRisk(transfer) + AssessExecutionRisk(ToTrade(transfer), states)
               + AssessCounterpartyRisk(transfer) < MaxRiskSum

\* The transfer at position i asks for exactly the destination token balance
\* (more than 0) and is the first listed transfer for that balance.
ExactBalance(i) ==
  LET t == ListedTransfers[i]
      d == NormalizeChainId(t.params.dstChainId)
  IN /\ OtherChecksPass(t)
     /\ t.params.amountOut > 0
     /\ evPreBal[d][Lower(t.params.tokenOut)] = t.params.amountOut
     /\ \A k \in 1..(i - 1) : ~SameInventory(ListedTransfers[k], t)

C18_LowFeeNeverEmitted ==
  evChain # 0 =>
    \A n \in 1..Len(EmittedIds) : \A i \in 1..Len(ListedTransfers) :
      ListedIds[i] = EmittedIds[n] =>
        /\ ListedTransfers[i].params.solverFee # 0
        /\ variant = "v2" => ListedTransfers[i].params.solverFee >= MinSolverFee

\* The zero-fee 0xr7 is listed first with ample balance at its destination,
\* and only 0xr1 after it was emitted.
C18_Witness ==
  /\ evChain = ChainA
  /\ ListedIds = <<"0xr7", "0xr1">>
  /\ ListedTransfers[1].params.solverFee = 0
  /\ evPreBal[ChainB] = [k \in {"0xt1"} |-> MaxBal]
  /\ states[ChainB].nativeBalance = 10000
  /\ EmittedIds = <<"0xr1">>

C21_SameBlockOnce ==
  \A c \in Chains : \A i, j \in 1..Len(streams[c].yielded) :
    i < j => streams[c].yielded[i] # streams[c].yielded[j]

\* C22: with the push subscription silent, polls answered and the consumer
\* pulling, every block the chain reaches is eventually yielded.
C22_PollingDelivers ==
  \A c \in Chains : \A n \in 1..MaxBlock :
    (head[c] >= n) ~> (\E i \in 1..Len(streams[c].yielded) : streams[c].yielded[i] = n)

\* Chain A reached its highest block, no push event was ever delivered, and
\* every block has been yielded in order.
C22_Witness ==
  /\ head[ChainA] = MaxBlock
  /\ streams[ChainA].delivered = 0
  /\ streams[ChainA].yielded = [i \in 1..MaxBlock |-> i]

(***************************************************************************)
(* Claims about the util functions (specification SpecUtil).               *)
(***************************************************************************)
\* C23: toRequestId is idempotent on hex strings and its result is always
\* the lower-case, 0x-prefixed, 66-character form.
C23_ToRequestIdCanonical ==
  call.fn = "toRequestId" =>
    /\ call.step >= 1 =>
         /\ Len(call.once) = 66
         /\ call.once[1] = "0" /\ call.once[2] = "x"
         /\ \A i \in 1..Len(call.once) : call.once[i] \notin {"A", "F", "X"}
    /\ call.step = 2 => call.twice = call.once

\* toRequestId was applied twice to an upper-case, unprefixed string longer
\* than 64 digits.
C23_Witness ==
  /\ call.fn = "toRequestId"
  /\ call.step = 2
  /\ Len(call.arg) > RequestIdDigits
  /\ call.arg[1] = "A"
  /\ call.once[3] = "a"

\* C24: normalizeChainId(x) is exactly x mod 2^64 for every 256-bit x.
C24_NormalizeChainIdExact ==
  (call.fn = "normalizeChainId" /\ call.step = 1) =>
    call.once = [hi |-> 0, a |-> call.arg.a, b1 |-> call.arg.b1, b0 |-> call.arg.b0]

(***************************************************************************)
(* Claims about the execution loop (specification Spec), continued.        *)
(***************************************************************************)
\* A call of executeTradeInternal that has submitted its approve and has
\* not settled yet.
InSequence(e) == Len(e.approves) > 0

\* C25: never are the approve/relay sequences of two different trades with
\* the same destination chain in progress at the same time.
C25_SerializedPerDestination ==
  \A x, y \in Executions :
    (/\ x # y
     /\ InSequence(ExecutionOf(x))
     /\ InSequence(ExecutionOf(y))
     /\ ExecutionOf(x).requestId # ExecutionOf(y).requestId)
      => ExecutionOf(x).destChainId # ExecutionOf(y).destChainId

(***************************************************************************)
(* Claims about Network.fetchState (specification SpecFetch).              *)
(***************************************************************************)
\* C26: fetchState never hands its caller a snapshot with an empty
\* tokenBalances map when every configured token's balanceOf read failed:
\* with a balance held for every configured token, no stored snapshot has an
\* empty map.
C26_NoEmptyBalancesStored ==
  \A c \in Chains : states[c].tokenBalances # EmptyMap

(***************************************************************************)
(* Claims about executeTrade's lookups (specification SpecExec).           *)
(***************************************************************************)
\* The tokenOut executeTrade searches the destination chain's token
\* contracts for is none of them.
TokenOutUnknown(trade, stored) ==
  \A t \in ConfiguredTokens(NormalizeChainId(trade.destChainId)) :
    Lower(t) # Lower(ActualParams(trade, stored).tokenOut)

C28_QueryFailureFailsTrade ==
  [][\A c \in Chains :
       (pc[c] = "reconcile" /\ ReconcileWith(c, Answer(FALSE, EmptyRecord)))
         => /\ exec'[c] = <<>>
            /\ ~InFlightHas(inFlight', cur[c][1].requestId)]_vars

(***************************************************************************)
(* Claims about the in-flight cache at capacity (specification SpecFull).  *)
(***************************************************************************)
\* C29: with the in-flight cache at capacity, set for a new request ID does
\* not fail: once execute is done, every trade of the list passed to it was
\* either skipped as in flight or attempted.
C29_EveryTradeSkippedOrAttempted ==
  \A c \in Chains :
    pc[c] = "idle" =>
      /\ Len(handled[c]) = Len(tickList[c])
      /\ \A i \in 1..Len(handled[c]) : handled[c][i].requestId = tickList[c][i].requestId

(***************************************************************************)
(* Claims about the scored evaluator's risk filter (specification SpecEval).*)
(***************************************************************************)
\* The four risk axes of a listed transfer in tenths, by the table: liquidity
\* 1.0 / 0.8 / 0.5 / 0.1, fee 0.9 / 0.1, execution 1.0 / 0.6 / 0.2,
\* counterparty 0.5 / 0.1, against the balances the tick fetched.
RiskAxes(t) ==
  LET d == NormalizeChainId(t.params.dstChainId)
      token == Lower(t.params.tokenOut)
      known == d \in DOMAIN states /\ token \in DOMAIN evPreBal[d]
  IN [liquidity |-> IF ~known \/ evPreBal[d][token] = 0 THEN 10
                    ELSE IF evPreBal[d][token] < t.params.amountOut THEN 8
                    ELSE IF 10 * evPreBal[d][token] < 11 * t.params.amountOut THEN 5
                    ELSE 1,
      fee |-> IF t.params.solverFee < 10 THEN 9 ELSE 1,
      execution |-> IF d \notin DOMAIN states THEN 8
                    ELSE IF states[d].nativeBalance = 0 THEN 10
                    ELSE IF states[d].nativeBalance < 1000 THEN 6
                    ELSE 2,
      counterparty |-> IF Lower(t.params.sender) = ZeroAddress
                          \/ Lower(t.params.recipient) = ZeroAddress THEN 5 ELSE 1]

\* The average of the four axes is at or above 0.3.
RiskAtOrAboveThreshold(t) ==
  RiskAxes(t).liquidity + RiskAxes(t).fee + RiskAxes(t).execution
    + RiskAxes(t).counterparty >= 4 * 3

\* The transfer gets as far as the risk filter of the scored evaluator.
ReachesRiskFilter(t) ==
  /\ NoSkipRuleApplies(t, evPreBal)
  /\ EvaluateConditions(t.conditions, t, states, clock)
  /\ t.params.solverFee >= MinSolverFee

IsEmitted(t) == \E n \in 1..Len(EmittedIds) : EmittedIds[n] = t.requestId

\* C30: the scored evaluator drops a candidate exactly when the average of
\* its four risk axes is at or above 0.3: such a candidate is never emitted,
\* and a candidate below the threshold is emitted unless another kept
\* candidate of the tick draws on the same destination balance.
C30_RiskThreshold ==
  (evChain # 0 /\ variant = "v2") =>
    \A i \in 1..Len(ListedTransfers) :
      LET t == ListedTransfers[i]
      IN ReachesRiskFilter(t) =>
           /\ RiskAtOrAboveThreshold(t) => ~IsEmitted(t)
           /\ (/\ ~RiskAtOrAboveThreshold(t)
               /\ \A k \in 1..Len(ListedTransfers) :
                    (k # i /\ SameInventory(ListedTransfers[k], t))
                      => (~ReachesRiskFilter(ListedTransfers[k])
                          \/ RiskAtOrAboveThreshold(ListedTransfers[k])))
                => IsEmitted(t)

\* The first example: 0xr1 asks for the whole balance of B (liquidity 0.5),
\* pays a sufficient fee (0.1), B's native balance is low (0.6) and its
\* counterparties are normal (0.1); it is dropped.
C30_Witness ==
  /\ variant = "v2"
  /\ evChain = ChainA
  /\ ListedIds = <<"0xr1">>
  /\ ReachesRiskFilter(ListedTransfers[1])
  /\ RiskAxes(ListedTransfers[1]) =
       [liquidity |-> 5, fee |-> 1, execution |-> 6, counterparty |-> 1]
  /\ EmittedIds = <<>>

\* The second example: the same with a good native balance (0.2); it is kept.
C30_KeptExample ==
  /\ variant = "v2"
  /\ evChain = ChainA
  /\ ListedIds = <<"0xr1">>
  /\ ReachesRiskFilter(ListedTransfers[1])
  /\ RiskAxes(ListedTransfers[1]) =
       [liquidity |-> 5, fee |-> 1, execution |-> 2, counterparty |-> 1]
  /\ EmittedIds = <<"0xr1">>

(***************************************************************************)
(* Claims about the scored evaluator's ranking (specification SpecEval).   *)
(***************************************************************************)
\* The overall score of a listed transfer, profitScore - 10 x risk, as the
\* fraction OverallNum / OverallDen: profit = fee - gas - amountOut / 60
\* (floored at 0) over the fee, less a quarter of the sum of the risk axes.
TransferProfit60(t) ==
  LET profit == 60 * t.params.solverFee
                - 60 * GasCost(NormalizeChainId(t.params.dstChainId))
                - t.params.amountOut
  IN IF profit > 0 THEN profit ELSE 0

RiskSum(t) ==
  RiskAxes(t).liquidity + RiskAxes(t).fee + RiskAxes(t).execution
    + RiskAxes(t).counterparty

OverallNum(t) == 4 * TransferProfit60(t) - 60 * t.params.solverFee * RiskSum(t)

OverallDen(t) == 240 * t.params.solverFee

\* Score t is at least (above) score u; both fees are positive.
ScoreAtLeast(t, u) == OverallNum(t) * OverallDen(u) >= OverallNum(u) * OverallDen(t)

ScoreAbove(t, u) == OverallNum(t) * OverallDen(u) > OverallNum(u) * OverallDen(t)

\* The listed transfer a request ID of the tick belongs to.
TransferOf(id) ==
  ListedTransfers[CHOOSE i \in 1..Len(ListedTransfers) : ListedTransfers[i].requestId = id]

\* The candidate passed every filter of the scored evaluator.
Accepted(t) == ReachesRiskFilter(t) /\ ~RiskAtOrAboveThreshold(t)

\* t and u are two accepted candidates for one destination token balance
\* that covers either but not both, and no third listed transfer draws on it.
CompeteByScore(i, j) ==
  LET t == ListedTransfers[i]
      u == ListedTransfers[j]
      d == NormalizeChainId(t.params.dstChainId)
      bal == evPreBal[d][Lower(t.params.tokenOut)]
  IN /\ i # j
     /\ t.requestId # u.requestId
     /\ Accepted(t) /\ Accepted(u)
     /\ SameInventory(t, u)
     /\ t.params.amountOut + u.params.amountOut > bal
     /\ \A k \in 1..Len(ListedTransfers) :
          (k # i /\ k # j) => ~SameInventory(ListedTransfers[k], t)

PreTickStates ==
  [d \in DOMAIN states |-> [states[d] EXCEPT !.tokenBalances = evPreBal[d]]]

\* The per-transfer checks of the simple evaluator against the pre-tick
\* state and cache: not fulfilled, not executed, not in flight, destination
\* known, native balance above 0, token present and covering amountOut,
\* solverFee at least 1.
PassesSimpleChecks(t) ==
  LET d == NormalizeChainId(t.params.dstChainId)
      token == Lower(t.params.tokenOut)
  IN /\ d \in DOMAIN PreTickStates
     /\ \A id \in PreTickStates[d].alreadyFulfilled : Lower(id) # Lower(t.requestId)
     /\ ~t.params.executed
     /\ t.requestId \notin evInFlight
     /\ PreTickStates[d].nativeBalance > 0
     /\ token \in DOMAIN PreTickStates[d].tokenBalances
     /\ PreTickStates[d].tokenBalances[token] > 0
     /\ PreTickStates[d].tokenBalances[token] >= t.params.amountOut
     /\ t.params.solverFee >= 1

\* C32: every Trade the scored evaluator emits passes each per-transfer check
\* of the simple evaluator against the same pre-tick state and in-flight
\* cache, and is the Trade Solver.solve builds for that transfer.
C32_ScoredRefinesSimple ==
  (evChain # 0 /\ variant = "v2") =>
    \A n \in 1..Len(tickList[evChain]) :
      LET t == TransferOf(tickList[evChain][n].requestId)
      IN /\ PassesSimpleChecks(t)
         /\ Solve(t, PreTickStates).trade = <<tickList[evChain][n]>>

\* A scored run emitted both of two listed requests.
C32_Witness ==
  /\ variant = "v2"
  /\ evChain = ChainA
  /\ Len(tickList[ChainA]) = 2
  /\ tickList[ChainA][1].requestId # tickList[ChainA][2].requestId

(***************************************************************************)
(* Scored evaluator runs over time-conditioned transfers.                  *)
(***************************************************************************)
\* A time condition as the documented shape gives it: operator, timestamp
\* in unix seconds and endTimestamp; params.max, which compare reads, is not
\* carried.
TimeConditionEnd(operator, timestamp, endTimestamp) ==
  [type |-> "time", operator |-> operator, timestamp |-> timestamp, max |-> Undefined,
   chainId |-> 0, token |-> "", minAmount |-> 0, endTimestamp |-> endTimestamp]

CondAfter == 2           \* timestamp of the conditions, unix seconds
CondEnd == 3             \* endTimestamp of the 'between' condition, unix seconds
MsPerSecond == 1000      \* Date.now() counts milliseconds
CondClocks == {1000, 2000, 3000, 4000}   \* Date.now() at the start of a run

\* A price condition: params.tokenPair ('' when absent), params.value and
\* params.max.
PriceCondition(operator, tokenPair, value) ==
  [type |-> "price", operator |-> operator, timestamp |-> 0, max |-> Undefined,
   chainId |-> 0, token |-> "", minAmount |-> 0, tokenPair |-> tokenPair,
   value |-> value]

\* Transfers chain A may list: one per documented time operator, and three
\* with a price condition (default pair at most the estimate, a named pair
\* above the estimate, a pair without '/').
CondTransfers ==
  { Xfer("0xc1", ChainA, U256(0, ChainB), "0xt1", 1, 60, FALSE, "0xa11ce",
         <<TimeConditionEnd("after", CondAfter, Undefined)>>),
    Xfer("0xc2", ChainA, U256(0, ChainB), "0xt1", 1, 60, FALSE, "0xa11ce",
         <<TimeConditionEnd("before", CondAfter, Undefined)>>),
    Xfer("0xc3", ChainA, U256(0, ChainB), "0xt1", 1, 60, FALSE, "0xa11ce",
         <<TimeConditionEnd("between", CondAfter, CondEnd)>>),
    Xfer("0xp1", ChainA, U256(0, ChainB), "0xt1", 1, 60, FALSE, "0xa11ce",
         <<PriceCondition("gte", "", 1)>>),
    Xfer("0xp2", ChainA, U256(0, ChainB), "0xt1", 1, 60, FALSE, "0xa11ce",
         <<PriceCondition("gt", "eth/usd", 1)>>),
    Xfer("0xp3", ChainA, U256(0, ChainB), "0xt1", 1, 60, FALSE, "0xa11ce",
         <<PriceCondition("gte", "ethusd", 1)>>) }

CondInit ==
  /\ world \in [Chains -> [nativeBalance : {10000},
                           tokenBalances : {[k \in {"0xt1"} |-> MaxBal]},
                           transfers : SeqsUpTo(CondTransfers, MaxTransfers),
                           alreadyFulfilled : {{}}]]
  /\ world[ChainB].transfers = <<>>
  /\ states = world
  /\ inFlight = EmptyMap
  /\ variant = "v2"
  /\ clock \in CondClocks
  /\ evChain = 0
  /\ tickList = [c \in Chains |-> <<>>]
  /\ evPreBal = BalancesOf(world)
  /\ evInFlight = {}
  /\ fetchedBal = BalancesOf(world)
  /\ LoopIdle
  /\ BlocksLive
  /\ call = NoCall
  /\ routerStore = EmptyMap

\* A second of wall-clock time passes between block events.
CondSecond ==
  /\ clock < 4 * MsPerSecond
  /\ clock' = clock + MsPerSecond
  /\ UNCHANGED <<states, world, inFlight, variant, evChain, tickList, evPreBal,
                 evInFlight, fetchedBal, routerStore, head, streams, process, call>>
  /\ UNCHANGED loopVars

CondNext == (\E chainId \in Chains : EvalTick(chainId)) \/ CondSecond

SpecCond == CondInit /\ [][CondNext]_vars

\* The wall clock of the run in unix seconds.
WallClockSeconds == clock \div MsPerSecond

\* The candidate of chain A's latest run that carries operator op.
ListedWith(op) ==
  evChain = ChainA /\ \E n \in 1..Len(states[ChainA].transfers) :
    states[ChainA].transfers[n].conditions[1].operator = op

EmittedWith(op) ==
  \E n \in 1..Len(states[ChainA].transfers) :
    /\ states[ChainA].transfers[n].conditions[1].operator = op
    /\ \E m \in 1..Len(tickList[ChainA]) :
         tickList[ChainA][m].requestId = states[ChainA].transfers[n].requestId

\* C33: in a scored run, a listed transfer whose time condition has operator
\* 'after' and timestamp T is emitted when the wall clock in seconds is at
\* least T (the destination balance covers every listed transfer) and is
\* skipped when it is below T.
C33_AfterMetFromTimestamp ==
  ListedWith("after") => (EmittedWith("after") <=> WallClockSeconds >= CondAfter)

\* A listed candidate of chain A's latest run whose first condition has the
\* given type was emitted.
EmittedOfType(type) ==
  \E n \in 1..Len(states[ChainA].transfers) :
    /\ states[ChainA].transfers[n].conditions[1].type = type
    /\ \E m \in 1..Len(tickList[ChainA]) :
         tickList[ChainA][m].requestId = states[ChainA].transfers[n].requestId

\* C34: no oracle source yields a price (both return nothing), so a scored
\* run emits no candidate that carries a price condition.
C34_PriceFailsClosed ==
  evChain = ChainA => ~EmittedOfType("price")

\* After a candidate whose price lookup throws, the run goes on and emits a
\* later candidate the destination balance covers.
C34_TickGoesOn ==
  (/\ evChain = ChainA
   /\ Len(states[ChainA].transfers) = 2
   /\ states[ChainA].transfers[1].requestId = "0xp3"
   /\ states[ChainA].transfers[2].requestId = "0xp1"
   /\ evPreBal[ChainB]["0xt1"] >= 1)
  => Len(tickList[ChainA]) = 1

(***************************************************************************)
(* main's shutdown handler beside the live block streams.                  *)
(***************************************************************************)
\* networks.values(): the chains in the order of the configuration.
NetworkOrder == <<ChainA, ChainB>>

\* The handler's invocation: how many networks it has destroyed (step), the
\* chains whose provider is destroyed (once), and what each stream had
\* yielded when the signal arrived (arg).
ShutdownCall(step, destroyed, yieldedThen) ==
  [fn |-> "shutdown", step |-> step, arg |-> yieldedThen, once |-> destroyed,
   twice |-> <<>>]

Destroyed == IF call.fn \in {"shutdown", "shutdownRejected"} THEN call.once ELSE {}

\* SIGTERM, SIGINT or SIGUSR2 arrives: the handler logs and reaches its
\* first await.
Signal ==
  /\ process = "running"
  /\ call = NoCall
  /\ call' = ShutdownCall(0, {}, [c \in Chains |-> Len(streams[c].yielded)])
  /\ UNCHANGED <<head, streams, process>>
  /\ UNCHANGED <<states, world, inFlight, variant, clock, evChain, tickList,
                 evPreBal, evInFlight, fetchedBal, pc, cur, queue, timer, exec,
                 orphans, handled, tickBal, routerStore>>

\* await network.destroy() of the next network settles: the provider is
\* closed and the loop goes on, or the promise rejects and the handler ends
\* there (nothing catches it).
DestroyNetwork(resolves) ==
  /\ process = "running"
  /\ call.fn = "shutdown"
  /\ call.step < Len(NetworkOrder)
  /\ call' = IF resolves
             THEN [call EXCEPT !.step = @ + 1,
                               !.once = @ \cup {NetworkOrder[call.step + 1]}]
             ELSE [call EXCEPT !.fn = "shutdownRejected"]
  /\ UNCHANGED <<head, streams, process>>
  /\ UNCHANGED <<states, world, inFlight, variant, clock, evChain, tickList,
                 evPreBal, evInFlight, fetchedBal, pc, cur, queue, timer, exec,
                 orphans, handled, tickBal, routerStore>>

\* process.exit(0) after the last destroy.
ExitZero ==
  /\ process = "running"
  /\ call.fn = "shutdown"
  /\ call.step = Len(NetworkOrder)
  /\ process' = "exited0"
  /\ UNCHANGED <<head, streams, call>>
  /\ UNCHANGED <<states, world, inFlight, variant, clock, evChain, tickList,
                 evPreBal, evInFlight, fetchedBal, pc, cur, queue, timer, exec,
                 orphans, handled, tickBal, routerStore>>

\* A destroyed provider delivers no 'block' event and answers no
\* getBlockNumber; the generator's queue and loop are untouched.
ShutdownNext ==
  \/ \E c \in Chains : Mine(c)
  \/ \E c \in Chains : c \notin Destroyed /\ PushBlock(c)
  \/ \E c \in Chains : c \notin Destroyed /\ PollRead(c)
  \/ \E c \in Chains : c \notin Destroyed /\ PollReply(c)
  \/ \E c \in Chains : PollFailed(c)
  \/ \E c \in Chains : Yield(c)
  \/ Signal
  \/ \E resolves \in BOOLEAN : DestroyNetwork(resolves)
  \/ ExitZero

\* The handler's awaits settle and its last statement runs.
ShutdownFairness ==
  /\ WF_vars(\E resolves \in BOOLEAN : DestroyNetwork(resolves))
  /\ WF_vars(ExitZero)

SpecShutdown == Init /\ [][ShutdownNext]_vars /\ ShutdownFairness

SignalReceived == call.fn \in {"shutdown", "shutdownRejected"}

\* C35: once a shutdown signal has been received no further block event is
\* consumed: every stream has yielded exactly what it had yielded when the
\* signal arrived.
C35_NoTickAfterSignal ==
  SignalReceived => \A c \in Chains : Len(streams[c].yielded) = call.arg[c]

\* C35, the rest: after a signal the process exits with code 0 and every
\* provider is destroyed by then.
C35_ExitsZeroAfterSignal ==
  SignalReceived ~> (process = "exited0" /\ Destroyed = Chains)

\* C36: an evaluator invocation leaves alreadyFulfilled, transfers and
\* nativeBalance of every chain in the store as the provider's snapshot gave
\* them, and the in-flight cache holds the keys it held when the invocation
\* began (the store changes only where fetchState stores a snapshot).
C36_EvaluatorFrame ==
  /\ \A d \in Chains :
       /\ states[d].alreadyFulfilled = world[d].alreadyFulfilled
       /\ states[d].transfers = world[d].transfers
       /\ states[d].nativeBalance = world[d].nativeBalance
  /\ evChain # 0 => DOMAIN inFlight = evInFlight

\* An invocation that emitted a Trade and wrote the destination's token
\* balance, with an entry in the cache.
C36_Witness ==
  /\ evChain = ChainA
  /\ Len(tickList[ChainA]) >= 1
  /\ states[ChainB].tokenBalances # evPreBal[ChainB]
  /\ world[ChainB].alreadyFulfilled # {}
  /\ DOMAIN inFlight # {}

(***************************************************************************)
(* The loop with every execution settling before its deadline: ticks,      *)
(* executions and the passing of time.                                     *)
(***************************************************************************)
RelayNext ==
  \/ \E c \in Chains : Tick(c)
  \/ \E c \in Chains : Reconcile(c)
  \/ \E c \in Chains : InternalStep(c)
  \/ Advance

SpecRelay == Init /\ [][RelayNext]_vars

\* C37: once a relay for R has succeeded (R is fulfilled on its destination
\* chain), no execution of R has submitted an approve or a relayTokens: a
\* successful execution has ended, so one that is under way for a fulfilled R
\* was started by a later tick.
C37_NoResubmission ==
  \A c \in Chains :
    pc[c] = "race" =>
      LET e == exec[c][1]
      IN e.requestId \in world[e.destChainId].alreadyFulfilled
           => e.approves = <<>> /\ e.relays = <<>>

\* C38: a request ID that a snapshot of its destination chain listed in
\* alreadyFulfilled (the router of that chain reports it; the store held it
\* from Solver.from on) is not emitted by any tick, whatever reads of the
\* later fetchState calls failed.
C38_FulfilledNeverEmitted ==
  \A c \in Chains : \A n \in 1..Len(tickList[c]) :
    LET d == NormalizeChainId(tickList[c][n].destChainId)
    IN d \in Chains =>
         \A id \in world[d].alreadyFulfilled :
           Lower(id) # Lower(tickList[c][n].requestId)

(***************************************************************************)
(* Two source chains whose requests share one destination chain: the store *)
(* holds a snapshot of the destination that no block event refreshes.      *)
(***************************************************************************)
ChainD == 31340           \* the shared destination chain

SharedChains == Chains \cup {ChainD}

\* Requests for chain D a source chain may list (amountOut 1 and 2).
TransfersToD(src, prefix) ==
  { Xfer(prefix \o "1", src, U256(0, ChainD), "0xt1", 1, 40, FALSE, "0xa11ce", NoCondition),
    Xfer(prefix \o "2", src, U256(0, ChainD), "0xt1", 2, 60, FALSE, "0xa11ce", NoCondition) }

\* The chains: A and B list requests, D holds the balance.
SharedWorld(ofA, ofB, balance) ==
  [c \in SharedChains |->
     [nativeBalance |-> 10000,
      tokenBalances |-> [k \in {"0xt1"} |-> IF c = ChainD THEN balance ELSE 0],
      transfers |-> IF c = ChainA THEN ofA ELSE IF c = ChainB THEN ofB ELSE <<>>,
      alreadyFulfilled |-> {}]]

SharedInit ==
  /\ world \in { SharedWorld(ofA, ofB, balance) :
                   ofA \in SeqsUpTo(TransfersToD(ChainA, "0xa"), MaxTransfers),
                   ofB \in SeqsUpTo(TransfersToD(ChainB, "0xb"), MaxTransfers),
                   balance \in 0..MaxBal }
  /\ states = world
  /\ inFlight = EmptyMap
  /\ variant \in {"v1", "v2"}
  /\ clock = 1000
  /\ evChain = 0
  /\ tickList = [c \in SharedChains |-> <<>>]
  /\ evPreBal = BalancesOf(world)
  /\ evInFlight = {}
  /\ fetchedBal = BalancesOf(world)
  /\ LoopIdle
  /\ BlocksLive
  /\ call = NoCall
  /\ routerStore = EmptyMap

\* Block events of the two source chains only.
SharedNext == \E chainId \in Chains : EvalTick(chainId)

SpecShared == SharedInit /\ [][SharedNext]_vars

\* C39: the Trades of the latest tick of chain A and of the latest tick of
\* chain B, both evaluated against the stored snapshot of D that no
\* fetchState has replaced, have a total swapAmount of the token of at most
\* that snapshot's balance.
C39_SharedSnapshotNotOverspent ==
  SumAmounts(tickList[ChainA] \o tickList[ChainB], ChainD, "0xt1")
    <= world[ChainD].tokenBalances["0xt1"]

\* Both source chains emitted, the two lists use the snapshot's balance up,
\* and one of the ticks left a listed request out.
C39_Witness ==
  /\ tickList[ChainA] # <<>>
  /\ tickList[ChainB] # <<>>
  /\ SumAmounts(tickList[ChainA] \o tickList[ChainB], ChainD, "0xt1")
       = world[ChainD].tokenBalances["0xt1"]
  /\ \/ Len(tickList[ChainA]) < Len(world[ChainA].transfers)
     \/ Len(tickList[ChainB]) < Len(world[ChainB].transfers)

\* The calls of executeTradeInternal that a tick of chain c started and that
\* are still running although execute has moved on.
LeftRunningBy(c) ==
  {i \in 1..Len(orphans) : NormalizeChainId(orphans[i].trade.srcChainId) = c}

\* C40: the tick for a block event of chain c starts only when the previous
\* tick of c has finished with all of its trade executions: no execution
\* started by an earlier tick of c is still running when Tick(c) begins.
C40_TicksDoNotOverlap ==
  [][\A c \in Chains : Tick(c) => LeftRunningBy(c) = {}]_vars

\* C40, the stream side: the for-await body runs once per yielded block
\* event, so a stream task is inside at most one tick at a time.
C40_OneTickAtATime ==
  \A c \in Chains : Len(cur[c]) <= 1 /\ Len(exec[c]) <= 1

====
